---------------------------- MODULE Spec2Model ----------------------------
(* A model of the wolf game engine: the immutable game state, the night-  *)
(* action resolver, the victory checker, the moderator's phase runners    *)
(* and the two game drivers (Game.run and the session runner's            *)
(* _run_game_loop).                                                       *)
EXTENDS Integers, Sequences, FiniteSets, TLC

VARIABLES
    state,      \* the current GameState snapshot
    driver,     \* which driver runs the game: "game" (Game.run), "runner" (_run_game_loop)
    pc,         \* position of the driver in its code
    loc,        \* locals of the running driver / phase runner
    result,     \* the GameEndEvent the driver returned, or None
    emitted,    \* events delivered to the listeners, in order
    ret,        \* what the last call of a pure function returned
    brief,      \* the text last produced for a player (briefing and tool outputs)
    acts        \* number of agent turns that returned a game action so far

vars == <<state, driver, pc, loc, result, emitted, ret, brief, acts>>

\* Python None where an object is expected
None == [type |-> "None"]
\* Python None in a field that otherwise holds a player id
Null == "null"

-----------------------------------------------------------------------------
(* Bounds of the model *)

\* config.max_days of the modelled games
MaxDays == 2
\* agent turns per game that return a game action (the others pass or raise)
MaxActs == 2
\* dead players in the inputs drawn for the pure functions
MaxDead == 1

-----------------------------------------------------------------------------
(* Sequence helpers *)

Range(s) == {s[i] : i \in 1..Len(s)}

\* the elements of s in order of first occurrence
Dedupe(s) ==
    LET first == {i \in 1..Len(s) : \A j \in 1..(i - 1) : s[j] # s[i]}
    IN [k \in 1..Cardinality(first) |->
           s[CHOOSE i \in first : Cardinality({j \in first : j < i}) = k - 1]]

CountIn(s, x) == Cardinality({i \in 1..Len(s) : s[i] = x})

\* all orders in which the elements of a finite set can be listed
SeqsOver(S) ==
    {s \in [1..Cardinality(S) -> S] :
        \A i, j \in 1..Cardinality(S) : s[i] = s[j] => i = j}

-----------------------------------------------------------------------------
(* Phase enum (engine/phase.py) *)

Phase == <<"SETUP", "NIGHT", "DAWN", "DAY_DISCUSSION", "DAY_VOTE",
           "DAY_VOTE_RESULT", "GAME_OVER">>

-----------------------------------------------------------------------------
(* Roles and registry (roles/classic/*.py, roles/registry.py) *)

Villager == [name |-> "villager", team |-> "village", abilities |-> <<>>]

Werewolf == [name |-> "werewolf", team |-> "werewolf",
             abilities |-> <<[name |-> "kill", phase |-> "NIGHT",
                              priority |-> 15, targets |-> "alive_others"]>>]

Seer == [name |-> "seer", team |-> "village",
         abilities |-> <<[name |-> "investigate", phase |-> "NIGHT",
                          priority |-> 20, targets |-> "alive_others"]>>]

Doctor == [name |-> "doctor", team |-> "village",
           abilities |-> <<[name |-> "protect", phase |-> "NIGHT",
                            priority |-> 10, targets |-> "alive_any"]>>]

\* RoleRegistry._roles after discover_plugins
RoleRegistry == {Villager, Werewolf, Seer, Doctor}

\* RoleRegistry.get
RegistryGet(role_name) == CHOOSE r \in RoleRegistry : r.name = role_name

DefaultPriority == 50

\* the priority of the first ability of that name, or the default
PriorityFrom(abilities, ability_name) ==
    LET named == {i \in 1..Len(abilities) : abilities[i].name = ability_name}
    IN IF named = {} THEN DefaultPriority
       ELSE abilities[CHOOSE i \in named : \A j \in named : i <= j].priority

\* resolver._get_ability_priority
GetAbilityPriority(role, ability_name) == PriorityFrom(role.abilities, ability_name)

-----------------------------------------------------------------------------
(* Actions (engine/actions.py) *)

UseAbilityAction(pid, ability, target) ==
    [type |-> "UseAbilityAction", player_id |-> pid,
     ability_name |-> ability, target_id |-> target]

NoAction(pid, reason) == [type |-> "NoAction", player_id |-> pid, reason |-> reason]

SpeakAction(pid, content) == [type |-> "SpeakAction", player_id |-> pid, content |-> content]

VoteAction(pid, target) == [type |-> "VoteAction", player_id |-> pid, target_id |-> target]

-----------------------------------------------------------------------------
(* Events (engine/events.py) *)

PhaseChangeEvent(day, phase, old, new) ==
    [type |-> "PhaseChangeEvent", day |-> day, phase |-> phase,
     old_phase |-> old, new_phase |-> new]

SpeechEvent(day, phase, pid, content, channel) ==
    [type |-> "SpeechEvent", day |-> day, phase |-> phase, player_id |-> pid,
     content |-> content, channel |-> channel]

VoteEvent(day, phase, voter, target) ==
    [type |-> "VoteEvent", day |-> day, phase |-> phase, voter_id |-> voter,
     target_id |-> target]

VoteResultEvent(day, phase, tally, eliminated, tie) ==
    [type |-> "VoteResultEvent", day |-> day, phase |-> phase, tally |-> tally,
     eliminated_id |-> eliminated, tie |-> tie]

EliminationEvent(day, phase, pid, role, cause) ==
    [type |-> "EliminationEvent", day |-> day, phase |-> phase, player_id |-> pid,
     role |-> role, cause |-> cause]

\* info is the text "<name> (<about>) is a <role>."
PrivateRevealEvent(day, phase, pid, about, role) ==
    [type |-> "PrivateRevealEvent", day |-> day, phase |-> phase, player_id |-> pid,
     info |-> [about |-> about, role |-> role]]

NightResultEvent(day, phase, kills, protected, saved) ==
    [type |-> "NightResultEvent", day |-> day, phase |-> phase, kills |-> kills,
     protected |-> protected, saved |-> saved]

GameEndEvent(day, phase, team, winners, reason) ==
    [type |-> "GameEndEvent", day |-> day, phase |-> phase, winning_team |-> team,
     winners |-> winners, reason |-> reason]

-----------------------------------------------------------------------------
(* GameState (engine/state.py) *)

\* Game._setup_players gives a player its id as name; metadata is an empty dict
PlayerSlot(pid, role, team) ==
    [player_id |-> pid, name |-> pid, role |-> role, team |-> team,
     is_alive |-> TRUE, metadata |-> {}]

GameState(day, phase, players) ==
    [day |-> day, phase |-> phase, players |-> players, events |-> <<>>,
     night_actions |-> <<>>]

HasPlayer(st, pid) == \E i \in 1..Len(st.players) : st.players[i].player_id = pid

\* GameState.get_player; None when no slot has the id
GetPlayer(st, pid) ==
    IF HasPlayer(st, pid)
    THEN LET i == CHOOSE i \in 1..Len(st.players) :
                    /\ st.players[i].player_id = pid
                    /\ \A j \in 1..(i - 1) : st.players[j].player_id # pid
         IN st.players[i]
    ELSE None

IsAlivePlayer(p) == p.is_alive

\* GameState.get_alive_players
GetAlivePlayers(st) == SelectSeq(st.players, IsAlivePlayer)

\* GameState.get_players_by_team
GetPlayersByTeam(st, team) == SelectSeq(st.players, LAMBDA p : p.team = team)

PlayerIds(ps) == [i \in 1..Len(ps) |-> ps[i].player_id]

WithPhase(st, phase) == [st EXCEPT !.phase = phase]

WithDay(st, day) == [st EXCEPT !.day = day]

\* WithPlayerKilled without the test of the player id: every slot is marked dead
WithPlayerKilledAll(st, pid) ==
    [st EXCEPT !.players = [i \in 1..Len(st.players) |-> [st.players[i] EXCEPT !.is_alive = FALSE]]]

\* WithPlayerKilled that drops the slot of the player
WithPlayerKilledRemoved(st, pid) ==
    [st EXCEPT !.players = SelectSeq(@, LAMBDA p : p.player_id # pid)]

WithPlayerKilled(st, pid) ==
    [st EXCEPT !.players =
        [i \in 1..Len(st.players) |->
            IF st.players[i].player_id = pid
            THEN [st.players[i] EXCEPT !.is_alive = FALSE]
            ELSE st.players[i]]]

\* night_actions is a dict: an entry whose key exists is replaced in place,
\* a new key is added at the end
WithNightAction(st, pid, action) ==
    LET na == st.night_actions
        entry == [player_id |-> pid, action |-> action]
    IN [st EXCEPT !.night_actions =
          IF \E i \in 1..Len(na) : na[i].player_id = pid
          THEN [i \in 1..Len(na) |-> IF na[i].player_id = pid THEN entry ELSE na[i]]
          ELSE Append(na, entry)]

WithEvent(st, event) == [st EXCEPT !.events = Append(st.events, event)]

\* ClearNightActions that keeps the entries
ClearNightActionsKept(st) == st

ClearNightActions(st) == [st EXCEPT !.night_actions = <<>>]

\* WithEvents that puts the new events ahead of the log
WithEventsPrepended(st, events) == [st EXCEPT !.events = events \o @]

\* with_event for each event of events in turn
WithEvents(st, events) == [st EXCEPT !.events = @ \o events]

-----------------------------------------------------------------------------
(* Night-action resolver (engine/resolver.py) *)

NightAction(pid, ability, target, priority) ==
    [player_id |-> pid, ability |-> ability, target_id |-> target, priority |-> priority]

\* step 1 of resolve_night, before the sort: one NightAction per UseAbilityAction
\* entry of night_actions whose player exists, in the order of the dict
BuildNightActions(st) ==
    LET used == SelectSeq(st.night_actions,
                          LAMBDA e : /\ e.action.type = "UseAbilityAction"
                                     /\ GetPlayer(st, e.player_id) # None)
    IN [i \in 1..Len(used) |->
          NightAction(used[i].player_id, used[i].action.ability_name,
                      used[i].action.target_id,
                      GetAbilityPriority(RegistryGet(GetPlayer(st, used[i].player_id).role),
                                         used[i].action.ability_name))]

\* list.sort(key=priority): ascending and stable, so an entry comes after the
\* entries of lower priority and the earlier entries of its own priority
SortByPriority(nas) ==
    LET Before(i) == {j \in 1..Len(nas) :
                        \/ nas[j].priority < nas[i].priority
                        \/ nas[j].priority = nas[i].priority /\ j < i}
    IN [k \in 1..Len(nas) |->
           nas[CHOOSE i \in 1..Len(nas) : Cardinality(Before(i)) = k - 1]]

SortedNightActions(st) ==
    CHOOSE sorted \in {SortByPriority(built) : built \in {BuildNightActions(st)}} : TRUE

\* the protected set after the walk
ProtectedSet(nas) == {nas[i].target_id : i \in {j \in 1..Len(nas) : nas[j].ability = "protect"}}

\* wolf_kill_votes holding only the kill vote met first in the walk
WolfKillVotesFirst(nas) ==
    LET kills == SelectSeq(nas, LAMBDA na : na.ability = "kill")
    IN [i \in 1..(IF Len(kills) > 0 THEN 1 ELSE 0) |-> kills[i].target_id]

\* wolf_kill_votes after the walk
WolfKillVotes(nas) ==
    LET kills == SelectSeq(nas, LAMBDA na : na.ability = "kill")
    IN [i \in 1..Len(kills) |-> kills[i].target_id]

\* RevealEvents addressed to the player investigated
RevealEventsToTarget(st, nas) ==
    LET inv == SelectSeq(nas, LAMBDA na : /\ na.ability = "investigate"
                                          /\ GetPlayer(st, na.target_id) # None)
    IN [i \in 1..Len(inv) |->
          PrivateRevealEvent(st.day, "DAWN", inv[i].target_id, inv[i].target_id,
                             GetPlayer(st, inv[i].target_id).role)]

\* the PrivateRevealEvents of the walk
RevealEvents(st, nas) ==
    LET inv == SelectSeq(nas, LAMBDA na : /\ na.ability = "investigate"
                                          /\ GetPlayer(st, na.target_id) # None)
    IN [i \in 1..Len(inv) |->
          PrivateRevealEvent(st.day, "DAWN", inv[i].player_id, inv[i].target_id,
                             GetPlayer(st, inv[i].target_id).role)]

\* RequiredVotes that lets any top count through
RequiredVotesAny(num_wolves) == 1

\* RequiredVotes with the threshold at half of the votes, rounded up
RequiredVotesHalf(num_wolves) == (num_wolves + 1) \div 2

\* the agreement threshold for num_wolves submitted kill votes
RequiredVotes(num_wolves) ==
    IF num_wolves <= 2 THEN num_wolves ELSE (num_wolves \div 2) + 1

\* max_votes: the count of the most common target
MaxVotes(votes) ==
    CHOOSE m \in 0..Len(votes) :
        /\ \A t \in Range(votes) : CountIn(votes, t) <= m
        /\ votes # <<>> => \E t \in Range(votes) : CountIn(votes, t) = m

\* the list random.choice draws the kill target from; empty when there are
\* no kill votes or the threshold is not met
TopTargets(votes) ==
    IF votes = <<>> THEN <<>>
    ELSE IF MaxVotes(votes) >= RequiredVotes(Len(votes))
         THEN SelectSeq(Dedupe(votes), LAMBDA t : CountIn(votes, t) = MaxVotes(votes))
         ELSE <<>>

\* the kills list: the set of values it can take, one per outcome of random.choice
KillsChoices(votes) ==
    IF TopTargets(votes) = <<>> THEN {<<>>}
    ELSE {<<t>> : t \in Range(TopTargets(votes))}

\* ActualKills without the protection check
ActualKillsUnchecked(kills, protected) == Dedupe(kills)

\* step 4: the kill targets that are not protected, each once
ActualKills(kills, protected) == Dedupe(SelectSeq(kills, LAMBDA t : t \notin protected))

\* Saved that lists every kill target, protected or not
SavedAll(kills, protected) == kills

Saved(kills, protected) == SelectSeq(kills, LAMBDA t : t \in protected)

\* ApplyKills that marks the targets dead and emits no event
ApplyKillsSilently(st, targets) ==
    <<[st EXCEPT !.players =
          [i \in 1..Len(st.players) |->
              IF st.players[i].player_id \in Range(targets)
              THEN [st.players[i] EXCEPT !.is_alive = FALSE]
              ELSE st.players[i]]],
      <<>> >>

RECURSIVE ApplyKills(_, _)
\* the loop over actual_kills: <<new_state, elimination events>>
ApplyKills(st, targets) ==
    IF targets = <<>> THEN <<st, <<>> >>
    ELSE LET t == Head(targets)
             p == GetPlayer(st, t)
         IN IF p # None /\ p.is_alive
            THEN LET killed == WithPlayerKilled(st, t)
                     rest == ApplyKills(killed, Tail(targets))
                 IN <<rest[1],
                      <<EliminationEvent(killed.day, "DAWN", t, p.role, "wolf_kill")>>
                         \o rest[2]>>
            ELSE ApplyKills(st, Tail(targets))

\* ResolveNightWith whose NightResultEvent lists as protected only the saved targets
ResolveNightWithSavedOnly(st, nas, kills, protected_list) ==
    LET protected == ProtectedSet(nas)
        actual_kills == ActualKills(kills, protected)
        applied == ApplyKills(st, actual_kills)
        events == <<NightResultEvent(st.day, "DAWN", actual_kills,
                                     Saved(kills, protected), Saved(kills, protected))>>
                  \o RevealEvents(st, nas) \o applied[2]
    IN [state |-> WithEvents(applied[1], events), events |-> events]

\* resolve_night for one outcome of random.choice (kills) and one iteration
\* order of the protected set (protected_list)
ResolveNightWith(st, nas, kills, protected_list) ==
    LET protected == ProtectedSet(nas)
        actual_kills == ActualKills(kills, protected)
        applied == ApplyKills(st, actual_kills)
        events == <<NightResultEvent(st.day, "DAWN", actual_kills, protected_list,
                                     Saved(kills, protected))>>
                  \o RevealEvents(st, nas) \o applied[2]
    IN [state |-> WithEvents(applied[1], events), events |-> events]

\* every (new_state, events) pair resolve_night can return for st
ResolveNight(st) ==
    UNION {{ResolveNightWith(st, nas, kills, pl) :
               kills \in KillsChoices(WolfKillVotes(nas)),
               pl \in SeqsOver(ProtectedSet(nas))} :
           nas \in {SortedNightActions(st)}}

-----------------------------------------------------------------------------
(* Victory checker (engine/victory.py) *)

AliveWolves(st) == SelectSeq(GetAlivePlayers(st), LAMBDA p : p.team = "werewolf")

AliveVillagers(st) == SelectSeq(GetAlivePlayers(st), LAMBDA p : p.team = "village")

\* CheckVictory with the werewolf win only when the wolves outnumber the villagers
CheckVictoryStrict(st) ==
    IF Len(AliveWolves(st)) = 0
    THEN GameEndEvent(st.day, st.phase, "village",
                      PlayerIds(GetPlayersByTeam(st, "village")),
                      "All werewolves have been eliminated.")
    ELSE IF Len(AliveWolves(st)) > Len(AliveVillagers(st))
    THEN GameEndEvent(st.day, st.phase, "werewolf",
                      PlayerIds(GetPlayersByTeam(st, "werewolf")),
                      "Werewolves equal or outnumber the villagers.")
    ELSE None

CheckVictory(st) ==
    IF Len(AliveWolves(st)) = 0
    THEN GameEndEvent(st.day, st.phase, "village",
                      PlayerIds(GetPlayersByTeam(st, "village")),
                      "All werewolves have been eliminated.")
    ELSE IF Len(AliveWolves(st)) >= Len(AliveVillagers(st))
    THEN GameEndEvent(st.day, st.phase, "werewolf",
                      PlayerIds(GetPlayersByTeam(st, "werewolf")),
                      "Werewolves equal or outnumber the villagers.")
    ELSE None

-----------------------------------------------------------------------------
(* Setup: player slots from a role list *)

Pids == <<"p1", "p2", "p3", "p4", "p5">>

\* runner._assign_roles / Game._setup_players: one slot per role of the list,
\* ids p1, p2, ..., the team taken from the registry, everybody alive
AssignRoles(roles) ==
    [i \in 1..Len(roles) |-> PlayerSlot(Pids[i], roles[i], RegistryGet(roles[i]).team)]

\* players with the slots at the indexes in dead marked dead
WithDead(players, dead) ==
    [i \in 1..Len(players) |->
        IF i \in dead THEN [players[i] EXCEPT !.is_alive = FALSE] ELSE players[i]]

-----------------------------------------------------------------------------
(* Night toolkit and the recording of night actions *)

\* the role's abilities usable at night (moderator.run_night)
NightAbilities(role) == SelectSeq(role.abilities, LAMBDA a : a.phase = "NIGHT")

\* what an agent can pass to a tool that takes a player: the id of a player,
\* nothing, or a name no player has
ToolArgs(st) == Range(PlayerIds(st.players)) \cup {"", "nobody"}

\* the use_ability handler of ToolFactory.build_night_toolkit
UseAbilityTool(st, pid, ability_name, arg) ==
    IF arg = "" THEN NoAction(pid, "no_target_specified")
    ELSE IF ~HasPlayer(st, arg) THEN NoAction(pid, "invalid_target")
    ELSE IF ~GetPlayer(st, arg).is_alive THEN NoAction(pid, "target_not_alive")
    ELSE UseAbilityAction(pid, ability_name, arg)

\* the pass_turn handler of ToolFactory._build_common_tools
PassTurnTool(pid) == NoAction(pid, "pass_turn")

\* the actions an agent's night turn can return through its toolkit
NightTurnActions(st, pid, ability_name) ==
    {UseAbilityTool(st, pid, ability_name, arg) : arg \in ToolArgs(st)}
        \cup {PassTurnTool(pid)}

\* moderator.run_night, "Record the night action"
RecordNightAction(st, pid, action) ==
    IF action.type = "UseAbilityAction"
    THEN WithNightAction(st, pid, action)
    ELSE WithNightAction(st, pid, NoAction(pid, "no_ability_used"))

\* whether run_night solicits the player
HasNightAbility(p) == NightAbilities(RegistryGet(p.role)) # <<>>

FirstNightAbility(p) == NightAbilities(RegistryGet(p.role))[1].name

RECURSIVE NightRecordings(_, _)
\* the states run_night can leave after asking the players of queue in turn
NightRecordings(st, queue) ==
    IF queue = <<>> THEN {st}
    ELSE LET p == Head(queue)
         IN IF ~HasNightAbility(p) THEN NightRecordings(st, Tail(queue))
            ELSE UNION {NightRecordings(RecordNightAction(st, p.player_id, a), Tail(queue)) :
                          a \in NightTurnActions(st, p.player_id, FirstNightAbility(p))}

-----------------------------------------------------------------------------
(* Specification of resolve_night as a function: the inputs are the states *)
(* a night can leave at dawn, the action applies resolve_night             *)

ResolveRosters ==
    { <<"werewolf", "werewolf", "seer", "doctor", "villager">>,
      <<"werewolf", "werewolf", "werewolf", "doctor", "villager">>,
      <<"werewolf", "doctor", "doctor", "seer", "villager">> }

DeadSets(n) == {d \in SUBSET (1..n) : Cardinality(d) <= MaxDead}

\* the states run_night can leave, and the states with an empty night_actions
ResolveInputs ==
    UNION { NightRecordings(
               GameState(1, "DAWN", WithDead(AssignRoles(roles), dead)),
               GetAlivePlayers(GameState(1, "DAWN", WithDead(AssignRoles(roles), dead))))
            \cup {GameState(1, "DAWN", WithDead(AssignRoles(roles), dead))} :
            roles \in ResolveRosters, dead \in DeadSets(5) }

ResolveInit ==
    /\ state \in ResolveInputs
    /\ driver = "none"
    /\ pc = "call"
    /\ loc = None
    /\ result = None
    /\ emitted = <<>>
    /\ ret = None
    /\ brief = None
    /\ acts = 0

\* RoleRegistry.get finds a class registered under the name
RegistryHas(role_name) == \E r \in RoleRegistry : r.name = role_name

\* step 1 of resolve_night reaches a UseAbilityAction entry of a player whose
\* role RoleRegistry.get does not know, and the KeyError leaves resolve_night
ResolveNightRaises(st) ==
    \E i \in 1..Len(st.night_actions) :
        /\ st.night_actions[i].action.type = "UseAbilityAction"
        /\ GetPlayer(st, st.night_actions[i].player_id) # None
        /\ ~RegistryHas(GetPlayer(st, st.night_actions[i].player_id).role)

\* a call of resolve_night: it returns one of its outcomes, or raises; the
\* sorted night_actions list of the call is kept for inspection
CallResolveNight ==
    /\ pc = "call"
    /\ IF ResolveNightRaises(state)
       THEN /\ state' = state
            /\ ret' = [fn |-> "resolve_night", arg |-> state, state |-> state,
                       events |-> <<>>, raised |-> "KeyError", night_actions |-> <<>>]
       ELSE \E out \in ResolveNight(state) :
               /\ state' = out.state
               /\ ret' = [fn |-> "resolve_night", arg |-> state, state |-> out.state,
                          events |-> out.events, raised |-> Null,
                          night_actions |-> SortedNightActions(state)]
    /\ pc' = "returned"
    /\ UNCHANGED <<driver, loc, result, emitted, brief, acts>>

ResolveNext == CallResolveNight

ResolveSpec == ResolveInit /\ [][ResolveNext]_vars

-----------------------------------------------------------------------------
(* Specification of check_victory as a function *)

VictoryRosters ==
    { <<>>, <<"werewolf">>, <<"villager">>, <<"werewolf", "villager">>,
      <<"werewolf", "werewolf", "villager">>, <<"werewolf", "villager", "seer">>,
      <<"werewolf", "werewolf", "seer", "doctor", "villager">>,
      <<"werewolf", "werewolf", "werewolf", "doctor", "villager">> }

VictoryInit ==
    /\ \E roles \in VictoryRosters, phase \in {"DAWN", "DAY_VOTE_RESULT"} :
         \E dead \in SUBSET (1..Len(roles)) :
            state = GameState(1, phase, WithDead(AssignRoles(roles), dead))
    /\ driver = "none"
    /\ pc = "call"
    /\ loc = None
    /\ result = None
    /\ emitted = <<>>
    /\ ret = None
    /\ brief = None
    /\ acts = 0

CallCheckVictory ==
    /\ pc = "call"
    /\ ret' = [fn |-> "check_victory", arg |-> state, value |-> CheckVictory(state)]
    /\ pc' = "returned"
    /\ UNCHANGED <<state, driver, loc, result, emitted, brief, acts>>

VictoryNext == CallCheckVictory

VictorySpec == VictoryInit /\ [][VictoryNext]_vars

-----------------------------------------------------------------------------
(* Configurations of the modelled games (config/schema.py GameConfig) *)

GameConfig(roles, max_days, wolf_chat, rounds, tie_breaker) ==
    [roles |-> roles, max_days |-> max_days, allow_wolf_chat |-> wolf_chat,
     discussion_rounds |-> rounds, tie_breaker |-> tie_breaker]

\* a 3-player game over MaxDays days with the default tie breaker, a 2-player
\* game the wolves have won from the start, the 5-player game of the
\* integration tests (two wolves, wolf chat, random tie breaker) over one day,
\* a game of two wolves with the wolf chat switched off, a 3-player game of
\* one day with two discussion rounds, and a game of three wolves
Configs ==
    { GameConfig(<<"werewolf", "seer", "doctor">>, MaxDays, TRUE, 1, "no_elimination"),
      GameConfig(<<"werewolf", "villager">>, MaxDays, TRUE, 1, "no_elimination"),
      GameConfig(<<"werewolf", "werewolf", "seer", "doctor", "villager">>,
                 1, TRUE, 1, "random"),
      GameConfig(<<"werewolf", "werewolf", "villager">>, 1, FALSE, 1, "no_elimination"),
      GameConfig(<<"werewolf", "seer", "villager">>, 1, TRUE, 2, "no_elimination"),
      GameConfig(<<"werewolf", "werewolf", "werewolf", "villager">>,
                 1, TRUE, 1, "no_elimination") }

\* Game.run builds its Moderator without tool factory and briefing builder,
\* GameRunner.run builds it with both
HasToolkit == driver = "runner"

-----------------------------------------------------------------------------
(* Vote toolkit and tally (agents/tool_factory.py, moderator.run_vote) *)

\* the vote handler of ToolFactory.build_vote_toolkit
VoteTool(st, pid, arg) ==
    IF arg \in {"", "no_one"} THEN VoteAction(pid, Null)
    ELSE IF ~HasPlayer(st, arg) THEN NoAction(pid, "invalid_vote_target")
    ELSE IF ~GetPlayer(st, arg).is_alive THEN NoAction(pid, "target_not_alive")
    ELSE IF arg = pid THEN NoAction(pid, "cannot_vote_self")
    ELSE VoteAction(pid, arg)

VoteTurnActions(st, pid) ==
    {VoteTool(st, pid, arg) : arg \in ToolArgs(st) \cup {"no_one"}} \cup {PassTurnTool(pid)}

\* the speak handler of the discussion toolkit: an empty message is no speech
SpeakTool(pid, content) ==
    IF content = "" THEN NoAction(pid, "empty_speech") ELSE SpeakAction(pid, content)

SpeakTurnActions(pid) == {SpeakTool(pid, c) : c \in {"", "msg"}} \cup {PassTurnTool(pid)}

\* the wolf_say handler of the wolf-chat toolkit
WolfSayTool(pid, content) ==
    IF content = "" THEN NoAction(pid, "empty_wolf_message") ELSE SpeakAction(pid, content)

WolfSayTurnActions(pid) == {WolfSayTool(pid, c) : c \in {"", "msg"}} \cup {PassTurnTool(pid)}

\* votes[player_id] as run_vote stores it for the action the agent returned
VoteTargetOf(action) == IF action.type = "VoteAction" THEN action.target_id ELSE Null

\* the targets of the non-null votes, in the order of the votes dict
VotedTargets(votes) ==
    LET cast == SelectSeq(votes, LAMBDA v : v.target_id # Null)
    IN [i \in 1..Len(cast) |-> cast[i].target_id]

\* the Counter of run_vote, as a function from target to count
Tally(votes) ==
    [t \in Range(VotedTargets(votes)) |-> CountIn(VotedTargets(votes), t)]

\* top_candidates cut down to the first target of the Counter with the
\* highest count
TopCandidatesFirst(votes) ==
    SubSeq(SelectSeq(Dedupe(VotedTargets(votes)),
                     LAMBDA t : CountIn(VotedTargets(votes), t)
                                  = MaxVotes(VotedTargets(votes))), 1, 1)

\* top_candidates: the targets with the highest count, in the order of the Counter
TopCandidates(votes) ==
    SelectSeq(Dedupe(VotedTargets(votes)),
              LAMBDA t : CountIn(VotedTargets(votes), t) = MaxVotes(VotedTargets(votes)))

\* the (eliminated_id, tie) pairs run_vote can reach for the votes
VoteOutcomes(votes, tie_breaker) ==
    IF VotedTargets(votes) = <<>> THEN {<<Null, FALSE>>}
    ELSE IF Len(TopCandidates(votes)) = 1 THEN {<<TopCandidates(votes)[1], FALSE>>}
    ELSE IF tie_breaker = "random"
         THEN {<<t, TRUE>> : t \in Range(TopCandidates(votes))}
         ELSE {<<Null, TRUE>>}

\* VoteEvents for the non-null votes only
VoteEventsCast(st, votes) ==
    LET cast == SelectSeq(votes, LAMBDA v : v.target_id # Null)
    IN [i \in 1..Len(cast) |->
           VoteEvent(st.day, "DAY_VOTE", cast[i].voter_id, cast[i].target_id)]

\* the VoteEvents of run_vote, one per entry of the votes dict
VoteEvents(st, votes) ==
    [i \in 1..Len(votes) |-> VoteEvent(st.day, "DAY_VOTE", votes[i].voter_id, votes[i].target_id)]

\* the most recent VoteResultEvent of the log, or None
LastVoteResult(st) ==
    IF \E i \in 1..Len(st.events) : st.events[i].type = "VoteResultEvent"
    THEN st.events[CHOOSE i \in 1..Len(st.events) :
                      /\ st.events[i].type = "VoteResultEvent"
                      /\ \A j \in (i + 1)..Len(st.events) :
                            st.events[j].type # "VoteResultEvent"]
    ELSE None

\* run_vote_result that kills the player without logging the elimination
RunVoteResultUnlogged(st, vote_result_event) ==
    LET eliminated_id == vote_result_event.eliminated_id
    IN IF eliminated_id # Null /\ HasPlayer(st, eliminated_id)
          /\ GetPlayer(st, eliminated_id).is_alive
       THEN <<WithPlayerKilled(st, eliminated_id), <<>> >>
       ELSE <<st, <<>> >>

\* moderator.run_vote_result: <<new_state, emitted events>>
RunVoteResult(st, vote_result_event) ==
    LET eliminated_id == vote_result_event.eliminated_id
    IN IF eliminated_id # Null /\ HasPlayer(st, eliminated_id)
          /\ GetPlayer(st, eliminated_id).is_alive
       THEN LET killed == WithPlayerKilled(st, eliminated_id)
                elim_event == EliminationEvent(killed.day, "DAY_VOTE_RESULT", eliminated_id,
                                               GetPlayer(st, eliminated_id).role, "vote")
            IN <<WithEvent(killed, elim_event), <<elim_event>> >>
       ELSE <<st, <<>> >>

-----------------------------------------------------------------------------
(* Phase transitions of the two drivers *)

\* Game._transition: <<new_state, emitted events>>
GameTransition(st, new_phase) ==
    LET event == PhaseChangeEvent(st.day, new_phase, st.phase, new_phase)
    IN <<WithEvent(WithPhase(st, new_phase), event), <<event>> >>

\* _run_game_loop: with_phase, and a PhaseChangeEvent with a fixed old_phase
\* that is emitted to the listeners only; the move to DAY_VOTE_RESULT emits none
RunnerTransition(st, new_phase) ==
    LET old == CASE new_phase = "NIGHT" ->
                       IF st.day = 1 THEN "SETUP" ELSE "DAY_VOTE_RESULT"
                 [] new_phase = "DAWN" -> "NIGHT"
                 [] new_phase = "DAY_DISCUSSION" -> "DAWN"
                 [] new_phase = "DAY_VOTE" -> "DAY_DISCUSSION"
                 [] OTHER -> None
    IN <<WithPhase(st, new_phase),
         IF new_phase = "DAY_VOTE_RESULT" THEN <<>>
         ELSE <<PhaseChangeEvent(st.day, new_phase, old, new_phase)>> >>

\* a driver that leaves out the DAWN phase
TransitionSkippingDawn(st, new_phase) ==
    IF new_phase = "DAWN" THEN GameTransition(st, "DAY_DISCUSSION")
    ELSE GameTransition(st, new_phase)

Transition(st, new_phase) ==
    IF driver = "game" THEN GameTransition(st, new_phase)
    ELSE RunnerTransition(st, new_phase)

\* Game._end_game: <<final state, emitted events>>
GameEndGame(st, end) ==
    LET over == WithPhase(st, "GAME_OVER")
        phase_event == PhaseChangeEvent(over.day, "GAME_OVER", over.phase, "GAME_OVER")
    IN <<WithEvent(WithEvent(over, phase_event), end), <<phase_event, end>> >>

\* _run_game_loop at a victory or at the cutoff: the event is emitted and returned
RunnerEndGame(st, end) == <<st, <<end>> >>

EndGame(st, end) == IF driver = "game" THEN GameEndGame(st, end) ELSE RunnerEndGame(st, end)

\* Game.run after the loop: the werewolves win by default
GameCutoffEvent(st, day) ==
    GameEndEvent(day, st.phase, "werewolf",
                 PlayerIds(GetPlayersByTeam(st, "werewolf")), "max_days")

\* _run_game_loop after the loop: a draw without winners
RunnerCutoffEvent(max_days) == GameEndEvent(max_days, "SETUP", "draw", <<>>, "max_days")

\* the GameEndEvent of the max-day cutoff
CutoffEvent(st, day, max_days) ==
    IF driver = "game" THEN GameCutoffEvent(st, day) ELSE RunnerCutoffEvent(max_days)

-----------------------------------------------------------------------------
(* Texts produced for a player: briefings (agents/briefing_builder.py),     *)
(* informational tools (agents/tool_factory.py), GameStateView              *)
(* (engine/state.py). A text is the sequence of its lines, a line is a      *)
(* record of what the line prints; display names stand one-to-one for       *)
(* player ids; the knowledge-base summary is the agent's own writing.       *)

NameLine(tag, names) == [line |-> tag, names |-> names]

SpeechLines(tag, messages) ==
    IF messages = <<>> THEN <<>> ELSE <<[line |-> tag, messages |-> messages]>>

\* does _get_public_day_events print the event for player_id
DayEventShown(st, e, player_id) ==
    /\ e.day = st.day
    /\ \/ e.type = "NightResultEvent" /\ e.kills # <<>>
       \/ e.type = "EliminationEvent"
       \/ e.type = "VoteResultEvent" /\ (e.eliminated_id # Null \/ e.tie)
       \/ e.type = "PrivateRevealEvent" /\ e.player_id = player_id

DayEventLine(e) ==
    CASE e.type = "NightResultEvent" ->
             [line |-> "night_results", kills |-> e.kills, saved |-> e.saved]
      [] e.type = "EliminationEvent" ->
             [line |-> "eliminated", name |-> e.player_id, role |-> e.role, cause |-> e.cause]
      [] e.type = "VoteResultEvent" ->
             [line |-> "vote_result", eliminated |-> e.eliminated_id, tie |-> e.tie]
      [] e.type = "PrivateRevealEvent" ->
             [line |-> "private_info", info |-> e.info]

\* BriefingBuilder._get_public_day_events
GetPublicDayEvents(st, player_id) ==
    LET shown == SelectSeq(st.events, LAMBDA e : DayEventShown(st, e, player_id))
    IN [i \in 1..Len(shown) |-> DayEventLine(shown[i])]

\* BriefingBuilder._get_discussion_speeches
GetDiscussionSpeeches(st) ==
    LET said == SelectSeq(st.events,
                          LAMBDA e : /\ e.type = "SpeechEvent"
                                     /\ e.day = st.day
                                     /\ e.phase = "DAY_DISCUSSION"
                                     /\ e.channel = "public")
    IN [i \in 1..Len(said) |-> [speaker |-> said[i].player_id, content |-> said[i].content]]

\* BriefingBuilder._get_vote_history
GetVoteHistory(st) ==
    LET shown == SelectSeq(st.events,
                           LAMBDA e : \/ e.type = "VoteEvent"
                                      \/ e.type = "VoteResultEvent"
                                         /\ (e.eliminated_id # Null \/ e.tie))
    IN [i \in 1..Len(shown) |->
          IF shown[i].type = "VoteEvent"
          THEN [line |-> "voted", day |-> shown[i].day, voter |-> shown[i].voter_id,
                target |-> shown[i].target_id]
          ELSE [line |-> "vote_result", day |-> shown[i].day,
                eliminated |-> shown[i].eliminated_id, tie |-> shown[i].tie]]

AliveOthers(st, player_id) ==
    SelectSeq(PlayerIds(GetAlivePlayers(st)), LAMBDA n : n # player_id)

BuildNightBriefing(st, player_id, role_name, ability_name, allies, wolf_chat_messages) ==
    <<[line |-> "you_are", name |-> player_id, role |-> role_name]>>
    \o (IF allies # <<>> THEN <<NameLine("wolf_allies", allies)>> ELSE <<>>)
    \o SpeechLines("wolf_chat_discussion", wolf_chat_messages)
    \o <<[line |-> "your_ability", ability |-> ability_name],
         NameLine("valid_targets", AliveOthers(st, player_id))>>

BuildWolfChatBriefing(st, player_id, allies, prior_messages) ==
    <<[line |-> "you_are", name |-> player_id, role |-> ""],
      NameLine("wolf_allies", allies),
      NameLine("alive_villager_side",
               SelectSeq(AliveOthers(st, player_id), LAMBDA n : n \notin Range(allies)))>>
    \o SpeechLines("wolf_chat_messages", prior_messages)

DeadNames(st) == PlayerIds(SelectSeq(st.players, LAMBDA p : ~p.is_alive))

BuildDiscussionBriefing(st, player_id, role_name, speeches_so_far) ==
    <<[line |-> "you_are", name |-> player_id, role |-> role_name],
      NameLine("alive_players", PlayerIds(GetAlivePlayers(st)))>>
    \o (IF DeadNames(st) # <<>> THEN <<NameLine("eliminated_players", DeadNames(st))>>
        ELSE <<>>)
    \o GetPublicDayEvents(st, player_id)
    \o SpeechLines("discussion_so_far", speeches_so_far)

BuildVoteBriefing(st, player_id, role_name, valid_targets) ==
    <<[line |-> "you_are", name |-> player_id, role |-> role_name],
      NameLine("valid_vote_targets", valid_targets)>>
    \o SpeechLines("discussion_summary", GetDiscussionSpeeches(st))
    \o GetPublicDayEvents(st, player_id)

BuildReflectionBriefing(st, player_id, event_summary) ==
    <<[line |-> "you_are", name |-> player_id, role |-> ""],
      NameLine("alive_players", PlayerIds(GetAlivePlayers(st)))>>
    \o event_summary

\* session/runner.py _build_event_summary
BuildEventSummary(events) ==
    LET shown == SelectSeq(events,
                           LAMBDA e : \/ e.type = "NightResultEvent" /\ e.kills # <<>>
                                      \/ e.type = "EliminationEvent"
                                      \/ e.type = "VoteResultEvent")
    IN IF shown = <<>> THEN <<[line |-> "nothing_notable"]>>
       ELSE [i \in 1..Len(shown) |-> DayEventLine(shown[i])]

\* what the informational tools of a toolkit built on st return to player_id
ToolOutputs(st, player_id) ==
    [get_alive_players |-> <<NameLine("alive_players", PlayerIds(GetAlivePlayers(st)))>>,
     get_all_players |->
         [i \in 1..Len(st.players) |->
             [line |-> "player_status", name |-> st.players[i].player_id,
              status |-> IF st.players[i].is_alive THEN "alive" ELSE "eliminated"]],
     get_day_events |-> GetPublicDayEvents(st, player_id),
     get_vote_history |-> GetVoteHistory(st)]

\* GameStateView.alive_players with every other player shown in full
ViewAlivePlayersUnfiltered(st, player_id) == GetAlivePlayers(st)

\* GameStateView.alive_players that scrubs role and team and keeps the metadata
ViewAlivePlayersKeepingMetadata(st, player_id) ==
    [i \in 1..Len(GetAlivePlayers(st)) |->
        IF GetAlivePlayers(st)[i].player_id = player_id THEN GetAlivePlayers(st)[i]
        ELSE [GetAlivePlayers(st)[i] EXCEPT !.role = "unknown", !.team = "unknown"]]

\* GameStateView.alive_players
ViewAlivePlayers(st, player_id) ==
    [i \in 1..Len(GetAlivePlayers(st)) |->
        IF GetAlivePlayers(st)[i].player_id = player_id THEN GetAlivePlayers(st)[i]
        ELSE [GetAlivePlayers(st)[i] EXCEPT !.role = "unknown", !.team = "unknown",
                                            !.metadata = {}]]

\* GameStateView.events without the filter
ViewEventsUnfiltered(st, player_id) == st.events

\* GameStateView.events
ViewEvents(st, player_id) ==
    SelectSeq(st.events,
              LAMBDA e : IF e.type = "PrivateRevealEvent" THEN e.player_id = player_id
                         ELSE IF e.type = "SpeechEvent" /\ e.channel = "wolf"
                         THEN GetPlayer(st, player_id) # None
                              /\ GetPlayer(st, player_id).team = "werewolf"
                         ELSE TRUE)

GameStateView(st, player_id) ==
    [day |-> st.day, phase |-> st.phase, my_player |-> GetPlayer(st, player_id),
     alive_players |-> ViewAlivePlayers(st, player_id),
     all_players |-> [i \in 1..Len(st.players) |->
                         <<st.players[i].player_id, st.players[i].name,
                           st.players[i].is_alive>>],
     events |-> ViewEvents(st, player_id)]

-----------------------------------------------------------------------------
(* The game: setup, the day/night loop of the driver, the moderator's turns *)

Locals(day, queue) ==
    [day |-> day, queue |-> queue, votes |-> <<>>, speeches_so_far |-> <<>>,
     wolf_chat_messages |-> <<>>, pre_count |-> 0, cfg |-> None]

\* the turn last taken: who was asked, in which sub-phase, and how it ended
Turn(pid, kind, outcome, text) ==
    [to |-> pid, kind |-> kind, outcome |-> outcome, text |-> text,
     tools |-> ToolOutputs(state, pid)]

\* the names of the living wolves other than player_id
Allies(st, player_id) ==
    SelectSeq(PlayerIds(AliveWolves(st)), LAMBDA n : n # player_id)

\* the briefing run_night builds for player_id
NightBriefing(player_id) ==
    LET p == GetPlayer(state, player_id)
    IN BuildNightBriefing(state, player_id, RegistryGet(p.role).name, FirstNightAbility(p),
                          IF p.team = "werewolf" THEN Allies(state, player_id) ELSE <<>>,
                          IF p.team = "werewolf" THEN loc.wolf_chat_messages ELSE <<>>)

\* a wolf-chat briefing that leaves out what the pack has said
WolfChatBriefingNoPrior(player_id) ==
    BuildWolfChatBriefing(state, player_id, Allies(state, player_id), <<>>)

\* the briefing _run_wolf_chat builds for player_id: the allies are the
\* wolves that were alive when run_night began
WolfChatBriefing(player_id) ==
    BuildWolfChatBriefing(state, player_id, Allies(state, player_id),
                          loc.wolf_chat_messages)

DiscussionBriefing(player_id) ==
    BuildDiscussionBriefing(state, player_id,
                            RegistryGet(GetPlayer(state, player_id).role).name,
                            loc.speeches_so_far)

\* a vote briefing that also quotes the votes cast so far in this vote
VoteBriefingWithVotes(player_id) ==
    BuildVoteBriefing(state, player_id,
                      RegistryGet(GetPlayer(state, player_id).role).name,
                      AliveOthers(state, player_id))
    \o [i \in 1..Len(loc.votes) |->
          [line |-> "voted", day |-> state.day, voter |-> loc.votes[i].voter_id,
           target |-> loc.votes[i].target_id]]

VoteBriefing(player_id) ==
    BuildVoteBriefing(state, player_id,
                      RegistryGet(GetPlayer(state, player_id).role).name,
                      AliveOthers(state, player_id))

\* the briefing run_reflection builds from the summary of the events logged
\* since the driver took its count before run_dawn or run_vote
ReflectionBriefing(player_id) ==
    BuildReflectionBriefing(state, player_id,
        BuildEventSummary(SubSeq(state.events, loc.pre_count + 1, Len(state.events))))

Init ==
    /\ state = GameState(0, "SETUP", <<>>)
    /\ driver \in {"game", "runner"}
    /\ pc = "setup"
    /\ \E cfg \in Configs : loc = [Locals(0, <<>>) EXCEPT !.cfg = cfg]
    /\ result = None
    /\ emitted = <<>>
    /\ ret = None
    /\ brief = None
    /\ acts = 0

\* Game.run up to the main loop / GameRunner.run up to _run_game_loop
Setup ==
    /\ pc = "setup"
    /\ LET st == GameState(0, "SETUP", AssignRoles(loc.cfg.roles))
           setup_event == PhaseChangeEvent(0, "SETUP", "SETUP", "NIGHT")
       IN IF driver = "game"
          THEN state' = WithEvent(st, setup_event) /\ emitted' = <<setup_event>>
          ELSE state' = st /\ emitted' = <<>>
    /\ pc' = "loop"
    /\ UNCHANGED <<driver, loc, result, ret, brief, acts>>

AtLoopHead == pc = "loop" \/ (pc = "vote_reflect" /\ loc.queue = <<>>)

\* the players run_night asks for an ability, in order
NightQueue(st) == PlayerIds(SelectSeq(GetAlivePlayers(st), HasNightAbility))

\* the wolves _run_wolf_chat asks, in order; empty when the sub-round does not run
WolfChatQueue(st, cfg) ==
    IF cfg.allow_wolf_chat /\ Len(AliveWolves(st)) >= 2
    THEN PlayerIds(AliveWolves(st)) ELSE <<>>

\* loop head with days left: the day counter, the move to NIGHT and the
\* start of run_night (night_actions cleared, wolf chat decided)
EnterNight ==
    /\ AtLoopHead
    /\ loc.day < loc.cfg.max_days
    /\ LET t == Transition(WithDay(state, loc.day + 1), "NIGHT")
           st == ClearNightActions(t[1])
           wolves == WolfChatQueue(st, loc.cfg)
       IN /\ state' = st
          /\ emitted' = emitted \o t[2]
          /\ IF wolves # <<>>
             THEN pc' = "wolf_chat" /\ loc' = [Locals(loc.day + 1, wolves) EXCEPT !.cfg = loc.cfg]
             ELSE pc' = "night"
                  /\ loc' = [Locals(loc.day + 1, NightQueue(st)) EXCEPT !.cfg = loc.cfg]
    /\ UNCHANGED <<driver, result, ret, brief, acts>>

\* one wolf's turn of _run_wolf_chat
WolfChatTurn ==
    /\ pc = "wolf_chat"
    /\ loc.queue # <<>>
    /\ LET pid == Head(loc.queue)
           rest == Tail(loc.queue)
           next_pc == IF rest = <<>> THEN "night" ELSE "wolf_chat"
           next_queue == IF rest = <<>> THEN NightQueue(state) ELSE rest
       IN \/ /\ HasToolkit
             /\ \E action \in WolfSayTurnActions(pid) :
                  IF action.type = "SpeakAction"
                  THEN /\ acts < MaxActs
                       /\ acts' = acts + 1
                       /\ LET event == SpeechEvent(state.day, "NIGHT", pid,
                                                   action.content, "wolf")
                          IN /\ state' = WithEvent(state, event)
                             /\ emitted' = Append(emitted, event)
                       /\ loc' = [loc EXCEPT !.queue = next_queue,
                                     !.wolf_chat_messages =
                                         Append(@, [speaker |-> pid, content |-> action.content])]
                       /\ brief' = Turn(pid, "wolf_chat", "spoke", WolfChatBriefing(pid))
                  ELSE /\ loc' = [loc EXCEPT !.queue = next_queue]
                       /\ brief' = Turn(pid, "wolf_chat", "passed", WolfChatBriefing(pid))
                       /\ UNCHANGED <<state, emitted, acts>>
             /\ pc' = next_pc
          \/ /\ HasToolkit
             /\ loc' = [loc EXCEPT !.queue = next_queue]
             /\ brief' = Turn(pid, "wolf_chat", "raised", WolfChatBriefing(pid))
             /\ pc' = next_pc
             /\ UNCHANGED <<state, emitted, acts>>
          \/ /\ ~HasToolkit
             /\ loc' = [loc EXCEPT !.queue = next_queue]
             /\ pc' = next_pc
             /\ UNCHANGED <<state, emitted, acts, brief>>
    /\ UNCHANGED <<driver, result, ret>>

\* a run_night without the try/except around run_phase: the raise ends the run
NightTurnRaisedUncaught(pid) ==
    /\ HasToolkit
    /\ pc' = "aborted"
    /\ brief' = Turn(pid, "night", "raised", NightBriefing(pid))
    /\ UNCHANGED <<state, loc, acts>>

\* a run_night that goes on to the next player without recording anything
NightTurnRaisedUnrecorded(pid) ==
    /\ HasToolkit
    /\ loc' = [loc EXCEPT !.queue = Tail(loc.queue)]
    /\ brief' = Turn(pid, "night", "raised", NightBriefing(pid))
    /\ UNCHANGED <<state, pc, acts>>

\* run_phase raises in run_night: NoAction "error" stands in for the action
NightTurnRaised(pid) ==
    /\ HasToolkit
    /\ state' = RecordNightAction(state, pid, NoAction(pid, "error"))
    /\ loc' = [loc EXCEPT !.queue = Tail(loc.queue)]
    /\ brief' = Turn(pid, "night", "raised", NightBriefing(pid))
    /\ UNCHANGED <<pc, acts>>

\* one player's turn of the loop of run_night
NightTurn ==
    /\ pc = "night"
    /\ loc.queue # <<>>
    /\ LET pid == Head(loc.queue)
           ability == FirstNightAbility(GetPlayer(state, pid))
       IN \/ /\ HasToolkit
             /\ \E action \in NightTurnActions(state, pid, ability) :
                  /\ state' = RecordNightAction(state, pid, action)
                  /\ IF action.type = "UseAbilityAction"
                     THEN /\ acts < MaxActs
                          /\ acts' = acts + 1
                          /\ brief' = Turn(pid, "night", "acted", NightBriefing(pid))
                     ELSE /\ acts' = acts
                          /\ brief' = Turn(pid, "night", "passed", NightBriefing(pid))
             /\ loc' = [loc EXCEPT !.queue = Tail(loc.queue)]
             /\ pc' = pc
          \/ NightTurnRaised(pid)
          \/ /\ ~HasToolkit
             /\ state' = RecordNightAction(state, pid, NoAction(pid, "no_toolkit"))
             /\ loc' = [loc EXCEPT !.queue = Tail(loc.queue)]
             /\ UNCHANGED <<pc, brief, acts>>
    /\ UNCHANGED <<driver, result, emitted, ret>>

\* run_night has returned: the move to DAWN and run_dawn
EnterDawn ==
    /\ pc = "night"
    /\ loc.queue = <<>>
    /\ \E t \in {Transition(state, "DAWN")} :
          \E out \in ResolveNight(t[1]) :
             /\ state' = out.state
             /\ emitted' = emitted \o t[2] \o out.events
             /\ ret' = [fn |-> "resolve_night", arg |-> t[1], state |-> out.state,
                        events |-> out.events]
             /\ loc' = [loc EXCEPT !.pre_count = Len(t[1].events)]
    /\ pc' = "dawn_check"
    /\ UNCHANGED <<driver, result, brief, acts>>

\* the players run_reflection asks; Game.run has no reflection
ReflectQueue(st) == IF HasToolkit THEN PlayerIds(GetAlivePlayers(st)) ELSE <<>>

\* a driver that does not look at check_victory after dawn
DawnCheckSkipped ==
    /\ pc = "dawn_check"
    /\ pc' = "dawn_reflect"
    /\ loc' = [loc EXCEPT !.queue = ReflectQueue(state)]
    /\ UNCHANGED <<state, driver, result, emitted, ret, brief, acts>>

\* check_victory after dawn: the game ends, or goes on to the dawn reflection
DawnCheck ==
    /\ pc = "dawn_check"
    /\ IF CheckVictory(state) # None
       THEN LET e == EndGame(state, CheckVictory(state))
            IN /\ state' = e[1]
               /\ emitted' = emitted \o e[2]
               /\ result' = CheckVictory(state)
               /\ pc' = "done"
               /\ loc' = loc
       ELSE /\ pc' = "dawn_reflect"
            /\ loc' = [loc EXCEPT !.queue = ReflectQueue(state)]
            /\ UNCHANGED <<state, emitted, result>>
    /\ UNCHANGED <<driver, ret, brief, acts>>

\* one player's turn of run_reflection: the returned action is dropped
ReflectTurn ==
    /\ pc \in {"dawn_reflect", "vote_reflect"}
    /\ loc.queue # <<>>
    /\ \E outcome \in {"passed", "raised"} :
          brief' = Turn(Head(loc.queue), "reflection", outcome,
                       ReflectionBriefing(Head(loc.queue)))
    /\ loc' = [loc EXCEPT !.queue = Tail(loc.queue)]
    /\ UNCHANGED <<state, driver, pc, result, emitted, ret, acts>>

\* the players run_discussion asks, round after round
DiscussionQueue(st, rounds) ==
    IF rounds = 0 THEN <<>>
    ELSE [i \in 1..(rounds * Len(GetAlivePlayers(st))) |->
            GetAlivePlayers(st)[((i - 1) % Len(GetAlivePlayers(st))) + 1].player_id]

\* the move to DAY_DISCUSSION and the start of run_discussion
EnterDiscussion ==
    /\ pc = "dawn_reflect"
    /\ loc.queue = <<>>
    /\ LET t == Transition(state, "DAY_DISCUSSION")
       IN /\ state' = t[1]
          /\ emitted' = emitted \o t[2]
          /\ loc' = [loc EXCEPT !.queue = DiscussionQueue(t[1], loc.cfg.discussion_rounds),
                                !.speeches_so_far = <<>>]
    /\ pc' = "discussion"
    /\ UNCHANGED <<driver, result, ret, brief, acts>>

\* one player's turn of run_discussion
DiscussionTurn ==
    /\ pc = "discussion"
    /\ loc.queue # <<>>
    /\ LET pid == Head(loc.queue)
       IN \/ /\ HasToolkit
             /\ \E action \in SpeakTurnActions(pid) :
                  IF action.type = "SpeakAction"
                  THEN /\ acts < MaxActs
                       /\ acts' = acts + 1
                       /\ LET event == SpeechEvent(state.day, "DAY_DISCUSSION", pid,
                                                   action.content, "public")
                          IN /\ state' = WithEvent(state, event)
                             /\ emitted' = Append(emitted, event)
                       /\ loc' = [loc EXCEPT !.queue = Tail(@),
                                     !.speeches_so_far =
                                         Append(@, [speaker |-> pid, content |-> action.content])]
                       /\ brief' = Turn(pid, "discussion", "spoke", DiscussionBriefing(pid))
                  ELSE /\ loc' = [loc EXCEPT !.queue = Tail(@)]
                       /\ brief' = Turn(pid, "discussion", "passed", DiscussionBriefing(pid))
                       /\ UNCHANGED <<state, emitted, acts>>
          \/ /\ HasToolkit
             /\ loc' = [loc EXCEPT !.queue = Tail(@)]
             /\ brief' = Turn(pid, "discussion", "raised", DiscussionBriefing(pid))
             /\ UNCHANGED <<state, emitted, acts>>
          \/ /\ ~HasToolkit
             /\ loc' = [loc EXCEPT !.queue = Tail(@)]
             /\ UNCHANGED <<state, emitted, acts, brief>>
    /\ UNCHANGED <<driver, pc, result, ret>>

\* the move to DAY_VOTE and the start of run_vote
EnterVote ==
    /\ pc = "discussion"
    /\ loc.queue = <<>>
    /\ LET t == Transition(state, "DAY_VOTE")
       IN /\ state' = t[1]
          /\ emitted' = emitted \o t[2]
          /\ loc' = [loc EXCEPT !.queue = PlayerIds(GetAlivePlayers(t[1])), !.votes = <<>>,
                                !.pre_count = Len(t[1].events)]
    /\ pc' = "vote"
    /\ UNCHANGED <<driver, result, ret, brief, acts>>

\* one player's turn of the first loop of run_vote
VoteTurn ==
    /\ pc = "vote"
    /\ loc.queue # <<>>
    /\ LET pid == Head(loc.queue)
           Cast(target) == [loc EXCEPT !.queue = Tail(@),
                                       !.votes = Append(@, [voter_id |-> pid,
                                                            target_id |-> target])]
       IN \/ /\ HasToolkit
             /\ \E action \in VoteTurnActions(state, pid) :
                  /\ loc' = Cast(VoteTargetOf(action))
                  /\ IF VoteTargetOf(action) # Null
                     THEN /\ acts < MaxActs
                          /\ acts' = acts + 1
                          /\ brief' = Turn(pid, "vote", "voted", VoteBriefing(pid))
                     ELSE /\ acts' = acts
                          /\ brief' = Turn(pid, "vote", "passed", VoteBriefing(pid))
          \/ /\ HasToolkit
             /\ loc' = Cast(Null)
             /\ brief' = Turn(pid, "vote", "raised", VoteBriefing(pid))
             /\ acts' = acts
          \/ /\ ~HasToolkit
             /\ loc' = Cast(Null)
             /\ UNCHANGED <<brief, acts>>
    /\ UNCHANGED <<state, driver, pc, result, emitted, ret>>

\* the rest of run_vote: the VoteEvents, the tally and the VoteResultEvent
TallyVotes ==
    /\ pc = "vote"
    /\ loc.queue = <<>>
    /\ \E outcome \in VoteOutcomes(loc.votes, loc.cfg.tie_breaker) :
          LET events == VoteEvents(state, loc.votes)
                          \o <<VoteResultEvent(state.day, "DAY_VOTE", Tally(loc.votes),
                                               outcome[1], outcome[2])>>
          IN /\ state' = WithEvents(state, events)
             /\ emitted' = emitted \o events
    /\ pc' = "vote_result"
    /\ UNCHANGED <<driver, loc, result, ret, brief, acts>>

\* the move to DAY_VOTE_RESULT and run_vote_result on the last VoteResultEvent
ApplyVoteResult ==
    /\ pc = "vote_result"
    /\ IF LastVoteResult(state) # None
       THEN LET t == Transition(state, "DAY_VOTE_RESULT")
                r == RunVoteResult(t[1], LastVoteResult(state))
            IN /\ state' = r[1]
               /\ emitted' = emitted \o t[2] \o r[2]
       ELSE IF driver = "game"
       THEN LET t == Transition(state, "DAY_VOTE_RESULT")
            IN state' = t[1] /\ emitted' = emitted \o t[2]
       ELSE UNCHANGED <<state, emitted>>
    /\ pc' = "vote_check"
    /\ UNCHANGED <<driver, loc, result, ret, brief, acts>>

\* check_victory after the vote result: the game ends, or goes on to the
\* vote reflection and the next day
VoteCheck ==
    /\ pc = "vote_check"
    /\ IF CheckVictory(state) # None
       THEN LET e == EndGame(state, CheckVictory(state))
            IN /\ state' = e[1]
               /\ emitted' = emitted \o e[2]
               /\ result' = CheckVictory(state)
               /\ pc' = "done"
               /\ loc' = loc
       ELSE /\ pc' = "vote_reflect"
            /\ loc' = [loc EXCEPT !.queue = ReflectQueue(state)]
            /\ UNCHANGED <<state, emitted, result>>
    /\ UNCHANGED <<driver, ret, brief, acts>>

\* loop head with no day left: the max-day cutoff
Cutoff ==
    /\ AtLoopHead
    /\ loc.day >= loc.cfg.max_days
    /\ LET end == CutoffEvent(state, loc.day, loc.cfg.max_days)
           e == EndGame(state, end)
       IN /\ state' = e[1]
          /\ emitted' = emitted \o e[2]
          /\ result' = end
    /\ pc' = "done"
    /\ UNCHANGED <<driver, loc, ret, brief, acts>>

Next ==
    \/ Setup
    \/ EnterNight
    \/ WolfChatTurn
    \/ NightTurn
    \/ EnterDawn
    \/ DawnCheck
    \/ ReflectTurn
    \/ EnterDiscussion
    \/ DiscussionTurn
    \/ EnterVote
    \/ VoteTurn
    \/ TallyVotes
    \/ ApplyVoteResult
    \/ VoteCheck
    \/ Cutoff

Spec == Init /\ [][Next]_vars

\* the driver is a sequential program: it takes its next step whenever it has one
FairSpec == Spec /\ WF_vars(Next)

-----------------------------------------------------------------------------
(* Claims about resolve_night, stated on its input and its output *)

ResolveReturned == pc = "returned" /\ ret.fn = "resolve_night"

\* the entries of night_actions that are UseAbilityActions with the ability
UsesOf(st, ability) ==
    SelectSeq(st.night_actions,
              LAMBDA e : /\ e.action.type = "UseAbilityAction"
                         /\ e.action.ability_name = ability)

\* the submitted wolf kill-votes, by target
KillVoteTargets(st) ==
    [i \in 1..Len(UsesOf(st, "kill")) |-> UsesOf(st, "kill")[i].action.target_id]

ProtectTargets(st) ==
    {UsesOf(st, "protect")[i].action.target_id : i \in 1..Len(UsesOf(st, "protect"))}

AgreementThreshold(n) == IF n <= 2 THEN n ELSE (n \div 2) + 1

\* t is named by enough of the submitted kill-votes
ReachesThreshold(st, t) ==
    /\ t \in Range(KillVoteTargets(st))
    /\ CountIn(KillVoteTargets(st), t) >= AgreementThreshold(Len(KillVoteTargets(st)))

EliminationsOf(events, t) ==
    SelectSeq(events, LAMBDA e : e.type = "EliminationEvent" /\ e.player_id = t)

AllEliminations(events) == SelectSeq(events, LAMBDA e : e.type = "EliminationEvent")

AliveFlags(st) == [i \in 1..Len(st.players) |-> st.players[i].is_alive]

\* C1: a kill target is adopted only if it reaches the agreement threshold of
\* the N submitted kill-votes (all of them for N <= 2, floor(N/2)+1 for
\* N >= 3); when no target reaches it nobody dies and kills is empty; a
\* target that reaches it is killed unless it is protected.
C1_WolfConsensus ==
    ResolveReturned =>
        LET st == ret.arg
            nr == ret.events[1]
        IN /\ nr.type = "NightResultEvent"
           /\ \A t \in Range(nr.kills) \cup Range(nr.saved) : ReachesThreshold(st, t)
           /\ (~ \E t \in Range(Pids) : ReachesThreshold(st, t)) =>
                 /\ nr.kills = <<>>
                 /\ AliveFlags(ret.state) = AliveFlags(st)
           /\ \A t \in Range(Pids) :
                 ReachesThreshold(st, t) /\ t \notin ProtectTargets(st) =>
                    /\ nr.kills = <<t>>
                    /\ ~GetPlayer(ret.state, t).is_alive

\* three kill-votes, two on one target and one on another, and the first is killed
C1_Witness ==
    /\ ResolveReturned
    /\ Len(KillVoteTargets(ret.arg)) = 3
    /\ \E a, b \in Range(Pids) :
          /\ a # b
          /\ CountIn(KillVoteTargets(ret.arg), a) = 2
          /\ CountIn(KillVoteTargets(ret.arg), b) = 1
          /\ ret.events[1].kills = <<a>>

\* C2: if a kill target was adopted and no protect action targets it, exactly
\* one EliminationEvent with cause "wolf_kill" is emitted for it, it is dead
\* in the returned state and it is listed in NightResultEvent.kills.
C2_UnprotectedKill ==
    ResolveReturned =>
        \A t \in Range(Pids) :
            ReachesThreshold(ret.arg, t) /\ t \notin ProtectTargets(ret.arg) =>
               /\ Len(EliminationsOf(ret.events, t)) = 1
               /\ EliminationsOf(ret.events, t)[1].cause = "wolf_kill"
               /\ Len(AllEliminations(ret.events)) = 1
               /\ ~GetPlayer(ret.state, t).is_alive
               /\ t \in Range(ret.events[1].kills)

\* an adopted, unprotected target was killed while a protect action named another player
C2_Witness ==
    /\ ResolveReturned
    /\ \E t \in Range(Pids) :
          /\ ReachesThreshold(ret.arg, t)
          /\ t \notin ProtectTargets(ret.arg)
          /\ ProtectTargets(ret.arg) # {}
          /\ Len(EliminationsOf(ret.events, t)) = 1

\* C3: if the adopted kill target is targeted by a protect action, no
\* EliminationEvent is emitted, the target is alive in the returned state, it
\* is in both protected and saved, and kills is empty.
C3_ProtectedTarget ==
    ResolveReturned =>
        \A t \in Range(Pids) :
            ReachesThreshold(ret.arg, t) /\ t \in ProtectTargets(ret.arg) =>
               /\ AllEliminations(ret.events) = <<>>
               /\ GetPlayer(ret.state, t).is_alive
               /\ t \in Range(ret.events[1].protected)
               /\ t \in Range(ret.events[1].saved)
               /\ ret.events[1].kills = <<>>

\* two wolves kill the villager p5, the doctor protects p5
C3_Witness ==
    /\ ResolveReturned
    /\ KillVoteTargets(ret.arg) = <<"p5", "p5">>
    /\ ProtectTargets(ret.arg) = {"p5"}
    /\ ret.events[1].saved = <<"p5">>

-----------------------------------------------------------------------------
(* Claims about check_victory *)

VictoryReturned == pc = "returned" /\ ret.fn = "check_victory"

AliveOfTeam(st, team) ==
    {i \in 1..Len(st.players) : st.players[i].is_alive /\ st.players[i].team = team}

AllOfTeam(st, team) ==
    {st.players[i].player_id : i \in {j \in 1..Len(st.players) : st.players[j].team = team}}

\* winners lists exactly the players of the team, each once
WinnersAre(event, st, team) ==
    /\ event.type = "GameEndEvent"
    /\ event.winning_team = team
    /\ Range(event.winners) = AllOfTeam(st, team)
    /\ Len(event.winners) = Cardinality(AllOfTeam(st, team))

\* C4: check_victory returns a village win when no werewolf-team player is
\* alive (also with no players at all), otherwise a werewolf win when the
\* alive werewolves are at least as many as the alive villagers, otherwise
\* None; the winners are all players of the winning team, alive and dead.
C4_VictoryLaw ==
    VictoryReturned =>
        LET st == ret.arg
            wolves == Cardinality(AliveOfTeam(st, "werewolf"))
            villagers == Cardinality(AliveOfTeam(st, "village"))
        IN IF wolves = 0 THEN WinnersAre(ret.value, st, "village")
           ELSE IF wolves >= villagers THEN WinnersAre(ret.value, st, "werewolf")
           ELSE ret.value = None

\* a werewolf win with equal numbers alive whose winners include a dead wolf
C4_Witness ==
    /\ VictoryReturned
    /\ Cardinality(AliveOfTeam(ret.arg, "werewolf")) = 1
    /\ Cardinality(AliveOfTeam(ret.arg, "village")) = 1
    /\ ret.value.winning_team = "werewolf"
    /\ \E i \in 1..Len(ret.arg.players) :
          /\ ~ret.arg.players[i].is_alive
          /\ ret.arg.players[i].player_id \in Range(ret.value.winners)

-----------------------------------------------------------------------------
(* Claims about a whole game under either driver *)

Last(s) == s[Len(s)]

\* the events a step appends to the log of the state
NewEvents == SubSeq(state'.events, Len(state.events) + 1, Len(state'.events))

OfType(events, type) == SelectSeq(events, LAMBDA e : e.type = type)

\* an agent is about to be asked for a turn
Soliciting ==
    /\ HasToolkit
    /\ pc \in {"wolf_chat", "night", "dawn_reflect", "discussion", "vote", "vote_reflect"}
    /\ loc.queue # <<>>

Done == pc = "done"

\* C5: in every day cycle of either driver check_victory is evaluated on the
\* state that night resolution returned and on the state after the vote
\* result; a result ends the game there with that result, so the day goes on
\* past dawn, or on to the next night or the cutoff, and an agent is asked
\* after dawn, only in a state without a winner; nothing happens after the end
C5_VictoryChecked ==
    [][ /\ (pc = "dawn_check" => state = ret.state)
        /\ (pc \in {"dawn_check", "vote_check"} /\ CheckVictory(state) # None
               => Done' /\ result' = CheckVictory(state))
        /\ (state.phase = "DAWN" /\ state'.phase = "DAY_DISCUSSION"
               => CheckVictory(state) = None)
        /\ (state.phase = "DAY_VOTE_RESULT" /\ (state'.phase = "NIGHT" \/ Done')
               /\ pc # "vote_check"
               => CheckVictory(state) = None)
        /\ (Soliciting /\ state.phase # "NIGHT" => CheckVictory(state) = None)
        /\ ~Done ]_vars

\* the runner has ended a game at the check after a vote that removed the last wolf
C5_Witness ==
    /\ Done
    /\ driver = "runner"
    /\ state.phase = "DAY_VOTE_RESULT"
    /\ result = CheckVictory(state)
    /\ result.winning_team = "village"

PhaseOrder ==
    { <<"SETUP", "NIGHT">>, <<"NIGHT", "DAWN">>, <<"DAWN", "DAY_DISCUSSION">>,
      <<"DAY_DISCUSSION", "DAY_VOTE">>, <<"DAY_VOTE", "DAY_VOTE_RESULT">>,
      <<"DAY_VOTE_RESULT", "NIGHT">> }

\* C6: the phase of successive states changes only along SETUP, NIGHT, DAWN,
\* DAY_DISCUSSION, DAY_VOTE, DAY_VOTE_RESULT and back to NIGHT; GAME_OVER is
\* entered only by the step that ends the game and is never left
C6_PhaseOrder ==
    [][ /\ (state'.phase # state.phase
               => \/ <<state.phase, state'.phase>> \in PhaseOrder
                  \/ state'.phase = "GAME_OVER" /\ ~Done /\ Done')
        /\ (state.phase = "GAME_OVER" => state'.phase = "GAME_OVER") ]_vars

\* a second day has begun after a full first day, and a game has ended in GAME_OVER
C6_Witness ==
    \/ state.phase = "NIGHT" /\ state.day = 2 /\ driver = "runner"
    \/ state.phase = "GAME_OVER" /\ state.day = 2 /\ Done

\* C7: every step that changes the phase appends exactly one PhaseChangeEvent
\* to the log of the state, with the phase left as old_phase and the phase
\* entered as new_phase, ahead of every other event of the step, and delivers
\* it to the listeners; no PhaseChangeEvent is logged without a phase change
C7_PhaseChangeRecorded ==
    [][ IF state'.phase # state.phase
        THEN /\ Len(OfType(NewEvents, "PhaseChangeEvent")) = 1
             /\ NewEvents[1].type = "PhaseChangeEvent"
             /\ NewEvents[1].old_phase = state.phase
             /\ NewEvents[1].new_phase = state'.phase
             /\ Len(emitted') > Len(emitted)
             /\ emitted'[Len(emitted) + 1] = NewEvents[1]
        ELSE OfType(NewEvents, "PhaseChangeEvent") = <<>> ]_vars

\* C8: when the game has ended the returned GameEndEvent is the last event of
\* the log, the log holds exactly one GameEndEvent and the phase is GAME_OVER
C8_GameEndRecorded ==
    Done => /\ result.type = "GameEndEvent"
            /\ state.events # <<>>
            /\ Last(state.events) = result
            /\ Len(OfType(state.events, "GameEndEvent")) = 1
            /\ state.phase = "GAME_OVER"

-----------------------------------------------------------------------------
(* The information boundary: what the texts produced for a player state *)
(* about the role or team of another player                             *)

Fact(about, what, value) == [about |-> about, what |-> what, value |-> value]

\* what one line of a briefing or tool output states about roles and teams
LineFacts(l) ==
    CASE l.line = "you_are" -> IF l.role = "" THEN {} ELSE {Fact(l.name, "role", l.role)}
      [] l.line = "wolf_allies" -> {Fact(n, "team", "werewolf") : n \in Range(l.names)}
      [] l.line = "alive_villager_side" -> {Fact(n, "team", "village") : n \in Range(l.names)}
      [] l.line = "eliminated" -> {Fact(l.name, "role", l.role)}
      [] l.line = "private_info" -> {Fact(l.info.about, "role", l.info.role)}
      [] OTHER -> {}

TextFacts(text) == UNION {LineFacts(text[i]) : i \in 1..Len(text)}

\* what one event of a view states about roles and teams
EventFacts(e) ==
    CASE e.type = "EliminationEvent" -> {Fact(e.player_id, "role", e.role)}
      [] e.type = "PrivateRevealEvent" -> {Fact(e.info.about, "role", e.info.role)}
      [] e.type = "GameEndEvent" -> {Fact(w, "team", e.winning_team) : w \in Range(e.winners)}
      [] OTHER -> {}

ViewFacts(view) ==
    UNION {{Fact(view.alive_players[i].player_id, "role", view.alive_players[i].role),
            Fact(view.alive_players[i].player_id, "team", view.alive_players[i].team)} :
           i \in 1..Len(view.alive_players)}
    \cup UNION {EventFacts(view.events[i]) : i \in 1..Len(view.events)}

\* the facts of the texts produced for player x in the current state: the
\* briefing and the tool outputs of x's last turn, and x's view of the state
ProducedFor(x) ==
    (IF brief # None /\ brief.to = x
     THEN TextFacts(brief.text) \cup TextFacts(brief.tools.get_alive_players)
          \cup TextFacts(brief.tools.get_all_players)
          \cup TextFacts(brief.tools.get_day_events)
          \cup TextFacts(brief.tools.get_vote_history)
     ELSE {})
    \cup ViewFacts(GameStateView(state, x))

\* the fact states the true role or team of another player than x
Leaks(x, f) ==
    /\ f.about # x
    /\ HasPlayer(state, f.about)
    /\ \/ f.what = "role" /\ f.value = GetPlayer(state, f.about).role
       \/ f.what = "team" /\ f.value = GetPlayer(state, f.about).team

Eliminated(y) == ~GetPlayer(state, y).is_alive

RevealedTo(x, y) ==
    \E i \in 1..Len(state.events) :
        /\ state.events[i].type = "PrivateRevealEvent"
        /\ state.events[i].player_id = x
        /\ state.events[i].info.about = y

GameEndLogged == OfType(state.events, "GameEndEvent") # <<>>

\* C10, as stated: no text produced for X states the true role or team of
\* another player Y unless Y has been eliminated or a PrivateRevealEvent
\* addressed to X names Y
C10_Original ==
    \A x \in Range(PlayerIds(state.players)) : \A f \in ProducedFor(x) :
        Leaks(x, f) => Eliminated(f.about) \/ RevealedTo(x, f.about)

\* C10, amended: no text produced for X states the true role or team of
\* another player Y unless Y has been eliminated, or a PrivateRevealEvent
\* addressed to X names Y, or X is on the werewolf team and the text states
\* Y's team (the wolf-chat and night briefings of a wolf name its living wolf
\* allies, the wolf-chat briefing lists the living villager-side players),
\* or the GameEndEvent has been logged and the text states Y's team (the
\* event names the winners)
C10_InformationBoundary ==
    \A x \in Range(PlayerIds(state.players)) : \A f \in ProducedFor(x) :
        Leaks(x, f) =>
            \/ Eliminated(f.about)
            \/ RevealedTo(x, f.about)
            \/ GetPlayer(state, x).team = "werewolf" /\ f.what = "team"
            \/ GameEndLogged /\ f.what = "team"

\* the seer is told in a day briefing the role of a living player it investigated
C10_Witness ==
    /\ brief # None
    /\ brief.kind \in {"discussion", "vote"}
    /\ \E f \in TextFacts(brief.text) :
          /\ Leaks(brief.to, f)
          /\ ~Eliminated(f.about)
          /\ RevealedTo(brief.to, f.about)

-----------------------------------------------------------------------------
(* Specification of GameStateView as a function of a state and a player *)

ViewRosters ==
    { <<"werewolf", "werewolf", "seer", "doctor", "villager">>,
      <<"werewolf", "seer", "doctor">> }

\* players with a note in the metadata of the slots at the indexes in marked
WithMetadata(players, marked) ==
    [i \in 1..Len(players) |->
        IF i \in marked THEN [players[i] EXCEPT !.metadata = {"note"}] ELSE players[i]]

ViewInit ==
    /\ \E roles \in ViewRosters, phase \in {"NIGHT", "DAY_DISCUSSION"} :
         \E dead \in SUBSET (1..Len(roles)), marked \in SUBSET (1..Len(roles)) :
            state = GameState(1, phase,
                              WithMetadata(WithDead(AssignRoles(roles), dead), marked))
    /\ driver = "none"
    /\ pc = "call"
    /\ loc = None
    /\ result = None
    /\ emitted = <<>>
    /\ ret = None
    /\ brief = None
    /\ acts = 0

CallGameStateView ==
    /\ pc = "call"
    /\ \E player_id \in Range(PlayerIds(state.players)) :
          ret' = [fn |-> "GameStateView", arg |-> state, player_id |-> player_id,
                  view |-> GameStateView(state, player_id)]
    /\ pc' = "returned"
    /\ UNCHANGED <<state, driver, loc, result, emitted, brief, acts>>

ViewNext == CallGameStateView

ViewSpec == ViewInit /\ [][ViewNext]_vars

-----------------------------------------------------------------------------
(* Claims about GameStateView *)

\* the numbers of a finite set in ascending order
Ascending(kept) ==
    [k \in 1..Cardinality(kept) |->
        CHOOSE i \in kept : Cardinality({j \in kept : j < i}) = k - 1]

\* the visibility rule for an event of the log and a player x
VisibleTo(st, x, e) ==
    CASE e.type = "PrivateRevealEvent" -> e.player_id = x
      [] e.type = "SpeechEvent" /\ e.channel = "wolf" ->
            \E i \in 1..Len(st.players) :
                st.players[i].player_id = x /\ st.players[i].team = "werewolf"
      [] OTHER -> TRUE

\* C11: for every player X (also an id that no player has) the events of
\* GameStateView(state, X) are exactly the events of the log that pass the
\* filter, in log order: a PrivateRevealEvent only when addressed to X, a
\* SpeechEvent of the "wolf" channel only when X's team is "werewolf", every
\* other event always
C11_EventFilter ==
    \A x \in Range(Pids) :
        LET view == GameStateView(state, x).events
            kept == Ascending({i \in 1..Len(state.events) :
                                 VisibleTo(state, x, state.events[i])})
        IN /\ Len(view) = Len(kept)
           /\ \A k \in 1..Len(kept) : view[k] = state.events[kept[k]]

\* the log holds a wolf-channel speech and a reveal, a villager sees neither
\* and a wolf sees the speech
C11_Witness ==
    /\ \E i, j \in 1..Len(state.events) :
          /\ state.events[i].type = "SpeechEvent" /\ state.events[i].channel = "wolf"
          /\ state.events[j].type = "PrivateRevealEvent"
          /\ state.events[j].player_id = "p3"
    /\ Len(GameStateView(state, "p5").events) = Len(state.events) - 2
    /\ Len(GameStateView(state, "p1").events) = Len(state.events) - 1
    /\ Len(GameStateView(state, "p3").events) = Len(state.events) - 1

ViewReturned == pc = "returned" /\ ret.fn = "GameStateView"

\* C12: alive_players of GameStateView(state, X) lists exactly the alive
\* players in order, X's own entry in full and every other entry with role
\* and team "unknown" and empty metadata; all_players lists every player as
\* (id, name, alive) and nothing else
C12_ViewPlayers ==
    ViewReturned =>
        LET st == ret.arg
            x == ret.player_id
            shown == ret.view.alive_players
            alive == Ascending({i \in 1..Len(st.players) : st.players[i].is_alive})
        IN /\ Len(shown) = Len(alive)
           /\ \A k \in 1..Len(alive) :
                 LET p == st.players[alive[k]]
                 IN IF p.player_id = x THEN shown[k] = p
                    ELSE /\ shown[k].player_id = p.player_id
                         /\ shown[k].name = p.name
                         /\ shown[k].is_alive
                         /\ shown[k].role = "unknown"
                         /\ shown[k].team = "unknown"
                         /\ shown[k].metadata = {}
           /\ Len(ret.view.all_players) = Len(st.players)
           /\ \A i \in 1..Len(st.players) :
                 ret.view.all_players[i] =
                     <<st.players[i].player_id, st.players[i].name, st.players[i].is_alive>>

\* the view of a living seer while a wolf with metadata is alive and another player is dead
C12_Witness ==
    /\ ViewReturned
    /\ ret.player_id = "p3"
    /\ GetPlayer(ret.arg, "p3").is_alive
    /\ GetPlayer(ret.arg, "p1").is_alive
    /\ GetPlayer(ret.arg, "p1").metadata # {}
    /\ \E i \in 1..Len(ret.arg.players) : ~ret.arg.players[i].is_alive
    /\ Len(ret.view.alive_players) < Len(ret.view.all_players)

-----------------------------------------------------------------------------
(* Claims about the snapshots of a game *)

\* C13: after setup the players collection keeps its length and order, the
\* player_ids are pairwise distinct, no slot changes in anything but
\* is_alive, and a snapshot has no other parts than day, phase, players,
\* events and night_actions
C13_PlayersStable ==
    [][ /\ pc # "setup" =>
              /\ Len(state'.players) = Len(state.players)
              /\ \A i \in 1..Len(state.players) :
                    [state'.players[i] EXCEPT !.is_alive = state.players[i].is_alive]
                        = state.players[i]
        /\ \A i, j \in 1..Len(state'.players) :
              state'.players[i].player_id = state'.players[j].player_id => i = j
        /\ DOMAIN state' = {"day", "phase", "players", "events", "night_actions"} ]_vars

\* a game has ended with a player dead and every slot in its place with its role
C13_Witness ==
    /\ Done
    /\ \E i \in 1..Len(state.players) : ~state.players[i].is_alive
    /\ Len(state.players) = Len(loc.cfg.roles)
    /\ \A i \in 1..Len(state.players) :
          /\ state.players[i].player_id = Pids[i]
          /\ state.players[i].role = loc.cfg.roles[i]

IsPrefix(s, t) == Len(s) <= Len(t) /\ SubSeq(t, 1, Len(s)) = s

\* C14: the log of the state before a step is a prefix of the log after it,
\* and when resolve_night has run the log of the state it returned is the
\* log of the state it was given followed by the events it returned
C14_AppendOnly ==
    [][ /\ IsPrefix(state.events, state'.events)
        /\ ret' # ret =>
              /\ ret'.fn = "resolve_night"
              /\ IsPrefix(state.events, ret'.arg.events)
              /\ ret'.state.events = ret'.arg.events \o ret'.events
              /\ state' = ret'.state ]_vars

\* resolve_night has added a night result and a reveal to a log that held events
C14_Witness ==
    /\ pc = "dawn_check"
    /\ Len(ret.events) >= 2
    /\ ret.arg.events # <<>>
    /\ state.events = ret.arg.events \o ret.events

-----------------------------------------------------------------------------
(* Claims about the moderator's turns *)

TurnPositions == {"wolf_chat", "night", "dawn_reflect", "discussion", "vote", "vote_reflect"}

\* the entries of night_actions under the key pid
EntriesOf(st, pid) ==
    SelectSeq(st.night_actions, LAMBDA e : e.player_id = pid)

\* C15: when the run_phase call of the player whose turn it is raises, the
\* step changes nothing but that player's default (a NoAction entry in
\* night_actions at night, a vote with null target in the vote, nothing in
\* wolf chat, discussion and reflection), the game is not ended, and the
\* moderator moves on to the remaining players of the phase
C15_RaiseDefaulted ==
    [][ (Soliciting /\ brief' # brief /\ brief'.outcome = "raised") =>
          LET pid == Head(loc.queue)
          IN /\ brief'.to = pid
             /\ pc' \in TurnPositions
             /\ result' = None
             /\ \/ pc' = pc /\ loc'.queue = Tail(loc.queue)
                \/ /\ pc = "wolf_chat" /\ Tail(loc.queue) = <<>> /\ pc' = "night"
                   /\ loc'.queue # <<>>
             /\ state'.events = state.events
             /\ emitted' = emitted
             /\ state'.players = state.players
             /\ loc'.speeches_so_far = loc.speeches_so_far
             /\ loc'.wolf_chat_messages = loc.wolf_chat_messages
             /\ IF pc = "night"
                THEN /\ Len(EntriesOf(state', pid)) = 1
                     /\ EntriesOf(state', pid)[1].action.type = "NoAction"
                     /\ \A q \in Range(Pids) \ {pid} : EntriesOf(state', q) = EntriesOf(state, q)
                     /\ loc'.votes = loc.votes
                ELSE /\ state' = state
                     /\ IF pc = "vote"
                        THEN loc'.votes = Append(loc.votes, [voter_id |-> pid,
                                                             target_id |-> Null])
                        ELSE loc'.votes = loc.votes ]_vars

\* the last player of a night raised after another player had used an
\* ability: the night is over, one has a NoAction entry and the other its action
C15_Witness ==
    /\ pc = "night"
    /\ loc.queue = <<>>
    /\ brief # None
    /\ brief.kind = "night"
    /\ brief.outcome = "raised"
    /\ Len(EntriesOf(state, brief.to)) = 1
    /\ EntriesOf(state, brief.to)[1].action.type = "NoAction"
    /\ \E q \in Range(Pids) :
          /\ EntriesOf(state, q) # <<>>
          /\ EntriesOf(state, q)[1].action.type = "UseAbilityAction"

-----------------------------------------------------------------------------
(* One agent turn: LLMAgent.run_phase on a vote or night toolkit *)
(* (agents/llm_agent.py, agents/toolkit.py)                       *)

\* the round budget of run_phase when the caller gives none
MAX_ROUNDS == 8

ToolResult(tool_name, output, is_terminal, action) ==
    [tool_name |-> tool_name, output |-> output, is_terminal |-> is_terminal,
     action |-> action]

\* the tools registered in the toolkit: name -> is_terminal
\* (get_alive_players stands for the informational tools). "vote" and
\* "night" are the toolkits ToolFactory builds; "vote_only" is a toolkit
\* without pass_turn and "info_only" one without any terminal tool, which
\* AgentToolkit.register allows to build
ToolkitTools(kind) ==
    CASE kind = "vote" -> [get_alive_players |-> FALSE, pass_turn |-> TRUE, vote |-> TRUE]
      [] kind = "night" ->
            [get_alive_players |-> FALSE, pass_turn |-> TRUE, use_ability |-> TRUE]
      [] kind = "vote_only" -> [get_alive_players |-> FALSE, vote |-> TRUE]
      [] kind = "info_only" -> [get_alive_players |-> FALSE]

\* toolkit.get_terminal_tools, as the set of their names
TerminalNames(kind) == {n \in DOMAIN ToolkitTools(kind) : ToolkitTools(kind)[n]}

\* what the handler of a registered tool returns
ToolHandler(st, pid, tool_name, args) ==
    CASE tool_name = "vote" -> VoteTool(st, pid, args)
      [] tool_name = "use_ability" ->
            UseAbilityTool(st, pid, FirstNightAbility(GetPlayer(st, pid)), args)
      [] tool_name = "pass_turn" -> PassTurnTool(pid)
      [] tool_name = "get_alive_players" -> "alive_players_text"

\* AgentToolkit.invoke: every Action a terminal tool returns, a NoAction
\* included, ends the turn
Invoke(st, pid, kind, tool_name, args) ==
    IF tool_name \notin DOMAIN ToolkitTools(kind)
    THEN ToolResult(tool_name, "error_unknown_tool", FALSE, None)
    ELSE IF ToolkitTools(kind)[tool_name]
    THEN ToolResult(tool_name, "action_submitted", TRUE,
                    ToolHandler(st, pid, tool_name, args))
    ELSE ToolResult(tool_name, ToolHandler(st, pid, tool_name, args), FALSE, None)

\* LLMAgent._force_terminal_action: pass_turn when the toolkit has it as a
\* terminal tool, else NoAction
ForceTerminalAction(st, pid, kind) ==
    IF "pass_turn" \in TerminalNames(kind)
    THEN Invoke(st, pid, kind, "pass_turn", "").action
    ELSE NoAction(pid, "max_rounds_forced")

AgentLocals(pid, kind) ==
    [player_id |-> pid, kind |-> kind, round_num |-> 0, rounds |-> MAX_ROUNDS,
     call |-> None, forced |-> FALSE, llm_calls |-> 0]

AgentInit ==
    /\ \E roles \in ResolveRosters, dead \in DeadSets(5),
          kind \in {"vote", "night", "vote_only", "info_only"} :
          /\ state = GameState(1, IF kind = "night" THEN "NIGHT" ELSE "DAY_VOTE",
                               WithDead(AssignRoles(roles), dead))
          /\ \E pid \in Range(PlayerIds(GetAlivePlayers(state))) :
                /\ kind = "night" => HasNightAbility(GetPlayer(state, pid))
                /\ loc = AgentLocals(pid, kind)
    /\ driver = "agent"
    /\ pc = "round"
    /\ result = None
    /\ emitted = <<>>
    /\ ret = None
    /\ brief = None
    /\ acts = 0

\* the names an agent can write as a tool name: the registered ones and another
ToolNames == {"vote", "use_ability", "pass_turn", "get_alive_players", "unknown_tool"}

\* the final round of a toolkit without terminal tools: the deadline
\* warning reads terminal_names[0] of an empty list, and the IndexError
\* leaves run_phase before the LLM is called
DeadlineRaises == loc.round_num = loc.rounds - 1 /\ TerminalNames(loc.kind) = {}

AgentDeadlineRaised ==
    /\ pc = "round"
    /\ DeadlineRaises
    /\ ret' = [fn |-> "run_phase", action |-> None, raised |-> "IndexError"]
    /\ pc' = "raised"
    /\ UNCHANGED <<state, driver, loc, result, emitted, brief, acts>>

\* a round in which the LLM call fails after its retries
AgentRoundLLMFailed ==
    /\ pc = "round"
    /\ ~DeadlineRaises
    /\ ret' = [fn |-> "run_phase", action |-> NoAction(loc.player_id, "llm_error"),
               raised |-> Null]
    /\ loc' = [loc EXCEPT !.call = None, !.llm_calls = @ + 1]
    /\ pc' = "returned"
    /\ UNCHANGED <<state, driver, result, emitted, brief, acts>>

\* one round of the loop in which the reply holds a tool call
AgentRound ==
    /\ pc = "round"
    /\ ~DeadlineRaises
    /\ \E tool_name \in ToolNames, args \in ToolArgs(state) \cup {"no_one"} :
          LET res == Invoke(state, loc.player_id, loc.kind, tool_name, args)
              call == [tool_name |-> tool_name, args |-> args, result |-> res]
          IN IF res.is_terminal /\ res.action # None
             THEN /\ ret' = [fn |-> "run_phase", action |-> res.action, raised |-> Null]
                  /\ loc' = [loc EXCEPT !.call = call, !.llm_calls = @ + 1]
                  /\ pc' = "returned"
             ELSE IF loc.round_num = loc.rounds - 1
             THEN /\ ret' = [fn |-> "run_phase",
                             action |-> ForceTerminalAction(state, loc.player_id, loc.kind),
                             raised |-> Null]
                  /\ loc' = [loc EXCEPT !.call = call, !.forced = TRUE,
                                        !.llm_calls = @ + 1]
                  /\ pc' = "returned"
             ELSE /\ loc' = [loc EXCEPT !.call = call, !.round_num = @ + 1,
                                        !.llm_calls = @ + 1]
                  /\ UNCHANGED <<ret, pc>>
    /\ UNCHANGED <<state, driver, result, emitted, brief, acts>>

\* one round of the loop in which no tool call is found in the reply
AgentRoundNoTool ==
    /\ pc = "round"
    /\ ~DeadlineRaises
    /\ IF loc.round_num = loc.rounds - 1
       THEN /\ ret' = [fn |-> "run_phase",
                       action |-> ForceTerminalAction(state, loc.player_id, loc.kind),
                       raised |-> Null]
            /\ loc' = [loc EXCEPT !.call = None, !.forced = TRUE, !.llm_calls = @ + 1]
            /\ pc' = "returned"
       ELSE /\ loc' = [loc EXCEPT !.call = None, !.round_num = @ + 1, !.llm_calls = @ + 1]
            /\ UNCHANGED <<ret, pc>>
    /\ UNCHANGED <<state, driver, result, emitted, brief, acts>>

AgentNext ==
    AgentRound \/ AgentRoundNoTool \/ AgentRoundLLMFailed \/ AgentDeadlineRaised

AgentSpec == AgentInit /\ [][AgentNext]_vars

-----------------------------------------------------------------------------
(* Claim about invalid action content *)

\* the content of a vote or use_ability call names no eligible player: for
\* a vote a dead, unknown or own player, for an ability an unknown or dead one
InvalidContent(st, pid, call) ==
    LET known == \E i \in 1..Len(st.players) : st.players[i].player_id = call.args
        alive == \E i \in 1..Len(st.players) :
                    st.players[i].player_id = call.args /\ st.players[i].is_alive
    IN \/ /\ call.tool_name = "vote"
          /\ call.args \notin {"", "no_one"}
          /\ (~known \/ ~alive \/ call.args = pid)
       \/ /\ call.tool_name = "use_ability"
          /\ call.args # ""
          /\ (~known \/ ~alive)

\* C16: a vote or use_ability call of the phase's toolkit with invalid
\* content gets a non-terminal result with an error text and no action; the
\* turn goes on to the next round, and the pass fallback is returned only
\* when the call was made in the last round of the budget
C16_InvalidRejected ==
    [][ (loc'.call # None /\ loc'.call.tool_name \in DOMAIN ToolkitTools(loc.kind)
            /\ InvalidContent(state, loc.player_id, loc'.call)) =>
          /\ ~loc'.call.result.is_terminal
          /\ loc'.call.result.action = None
          /\ IF loc.round_num < loc.rounds - 1
             THEN pc' = "round" /\ loc'.round_num = loc.round_num + 1 /\ ~loc'.forced
             ELSE /\ pc' = "returned"
                  /\ loc'.forced
                  /\ ret'.action = NoAction(loc.player_id, "pass_turn") ]_vars

-----------------------------------------------------------------------------
(* Claims about the night phase *)

\* the roles with an ability of the NIGHT phase
NightRoles == {"werewolf", "seer", "doctor"}

\* the alive players whose role has a night ability
Eligible(st) ==
    {st.players[i].player_id :
        i \in {j \in 1..Len(st.players) :
                  st.players[j].is_alive /\ st.players[j].role \in NightRoles}}

\* C17: the night loop starts with every eligible player (alive, role with
\* a NIGHT ability) waiting exactly once and nobody else; each of its steps
\* asks the player whose turn it is with a night briefing and records
\* exactly one entry for that player, a UseAbilityAction or a NoAction, and
\* no other; when the night is over night_actions holds one entry for each
\* eligible player and none for the others
C17_NightSolicitation ==
    [][ /\ (pc # "night" /\ pc' = "night") =>
              /\ Range(loc'.queue) = Eligible(state')
              /\ Len(loc'.queue) = Cardinality(Eligible(state'))
              /\ state'.night_actions = <<>>
        /\ (pc = "night" /\ loc.queue # <<>>) =>
              LET pid == Head(loc.queue)
              IN /\ brief' # brief
                 /\ brief'.to = pid
                 /\ brief'.kind = "night"
                 /\ Len(EntriesOf(state', pid)) = 1
                 /\ EntriesOf(state', pid)[1].action.type \in {"UseAbilityAction", "NoAction"}
                 /\ EntriesOf(state', pid)[1].action.player_id = pid
                 /\ \A q \in Range(Pids) \ {pid} : EntriesOf(state', q) = EntriesOf(state, q)
                 /\ loc'.queue = Tail(loc.queue)
        /\ (pc = "night" /\ pc' = "dawn_check") =>
              \A q \in Range(Pids) :
                  Len(EntriesOf(state, q)) = IF q \in Eligible(state) THEN 1 ELSE 0 ]_vars

\* C18: the step that begins a night leaves night_actions empty; after that
\* night_actions changes only in the turns of that night, each adding the
\* entry of the player whose turn it is; resolve_night is given the
\* night_actions as that night left them, on the same day, so every entry it
\* resolves was recorded that night
C18_NightActionsFresh ==
    [][ /\ (state.phase # "NIGHT" /\ state'.phase = "NIGHT") => state'.night_actions = <<>>
        /\ (state'.night_actions # state.night_actions) =>
              \/ state.phase # "NIGHT" /\ state'.phase = "NIGHT"
              \/ /\ pc = "night" /\ loc.queue # <<>>
                 /\ state.phase = "NIGHT" /\ state'.phase = "NIGHT"
                 /\ state'.day = state.day
                 /\ state'.night_actions =
                        Append(state.night_actions, EntriesOf(state', Head(loc.queue))[1])
        /\ (ret' # ret) =>
              /\ ret'.fn = "resolve_night"
              /\ ret'.arg.night_actions = state.night_actions
              /\ ret'.arg.day = state.day
              /\ state.phase = "NIGHT"
              /\ \A i \in 1..Len(state.night_actions) :
                    state.night_actions[i].player_id \in Eligible(state) ]_vars

\* the seer investigated on the first night and not on the second: the dawn
\* of day 2 resolved no action and brought no second reveal
C18_Witness ==
    /\ pc = "dawn_check"
    /\ state.day = 2
    /\ ret.arg.day = 2
    /\ \E i \in 1..Len(state.events) :
          state.events[i].type = "PrivateRevealEvent" /\ state.events[i].day = 1
    /\ \A i \in 1..Len(ret.arg.night_actions) :
          ret.arg.night_actions[i].action.type = "NoAction"
    /\ Len(ret.events) = 1

-----------------------------------------------------------------------------
(* Further claims about resolve_night *)

\* C19: resolve_night returns exactly one NightResultEvent, as the first
\* event of the list; with no ability used its kills, protected and saved
\* are empty; its protected list holds every target of a protect action
\* once, whether or not the wolves chose that player
C19_NightResult ==
    ResolveReturned =>
        LET st == ret.arg
            nr == ret.events[1]
            used == SelectSeq(st.night_actions,
                              LAMBDA e : e.action.type = "UseAbilityAction")
        IN /\ ret.events # <<>>
           /\ nr.type = "NightResultEvent"
           /\ Len(OfType(ret.events, "NightResultEvent")) = 1
           /\ used = <<>> =>
                 /\ nr.kills = <<>> /\ nr.protected = <<>> /\ nr.saved = <<>>
                 /\ Len(ret.events) = 1
           /\ Range(nr.protected) = ProtectTargets(st)
           /\ Len(nr.protected) = Cardinality(ProtectTargets(st))

\* two doctors protected two players, one of them the target the wolf chose:
\* both are listed as protected, one of them as saved
C19_Witness ==
    /\ ResolveReturned
    /\ Len(UsesOf(ret.arg, "protect")) = 2
    /\ Len(ret.events[1].protected) = 2
    /\ Len(ret.events[1].saved) = 1
    /\ ret.events[1].kills = <<>>

\* the PrivateRevealEvents for investigator s about target t
RevealsFor(events, s, t) ==
    SelectSeq(events, LAMBDA e : /\ e.type = "PrivateRevealEvent"
                                 /\ e.player_id = s
                                 /\ e.info.about = t)

\* C20: for every investigate action of S on an existing player T exactly one
\* PrivateRevealEvent is addressed to S about T and it gives T's role; there
\* are no other PrivateRevealEvents; a player's is_alive changes only for a
\* player listed in kills, and not at all when no kill was submitted
C20_Investigate ==
    ResolveReturned =>
        LET st == ret.arg
            inv == SelectSeq(UsesOf(st, "investigate"),
                             LAMBDA e : HasPlayer(st, e.action.target_id))
        IN /\ \A i \in 1..Len(inv) :
                 LET r == RevealsFor(ret.events, inv[i].player_id, inv[i].action.target_id)
                 IN /\ Len(r) = 1
                    /\ r[1].info.role = GetPlayer(st, inv[i].action.target_id).role
           /\ Len(OfType(ret.events, "PrivateRevealEvent")) = Len(inv)
           /\ \A i \in 1..Len(st.players) :
                 ret.state.players[i].is_alive # st.players[i].is_alive =>
                     st.players[i].player_id \in Range(ret.events[1].kills)
           /\ UsesOf(st, "kill") = <<>> => AliveFlags(ret.state) = AliveFlags(st)

\* the seer p3 investigated the wolf p1 while no kill was submitted: p3 is
\* told that p1 is a werewolf and everybody is alive as before
C20_Witness ==
    /\ ResolveReturned
    /\ Len(UsesOf(ret.arg, "investigate")) = 1
    /\ UsesOf(ret.arg, "kill") = <<>>
    /\ Len(RevealsFor(ret.events, "p3", "p1")) = 1
    /\ RevealsFor(ret.events, "p3", "p1")[1].info.role = "werewolf"
    /\ AliveFlags(ret.state) = AliveFlags(ret.arg)

-----------------------------------------------------------------------------
(* Specification of run_vote and run_vote_result as functions of the state
   and of the votes the alive players return *)

VoteRosters ==
    { <<"werewolf", "werewolf", "seer", "doctor", "villager">> }

\* the values votes[player_id] can take for a player asked through the vote
\* toolkit
VoteTargetsOf(st, pid) == {VoteTargetOf(action) : action \in VoteTurnActions(st, pid)}

\* the votes dict after the first loop of run_vote: one entry per alive
\* player, in the order of get_alive_players
VoteProfiles(st) ==
    LET alive == GetAlivePlayers(st)
        n == Len(alive)
        targets == UNION {VoteTargetsOf(st, alive[i].player_id) : i \in 1..n}
    IN { [i \in 1..n |-> [voter_id |-> alive[i].player_id, target_id |-> f[i]]] :
           f \in {g \in [1..n -> targets] :
                     \A i \in 1..n : g[i] \in VoteTargetsOf(st, alive[i].player_id)} }

VoteInit ==
    /\ \E roles \in VoteRosters, dead \in DeadSets(5) :
          state = GameState(1, "DAY_VOTE", WithDead(AssignRoles(roles), dead))
    /\ \E votes \in VoteProfiles(state), tie_breaker \in {"no_elimination", "random"} :
          loc = [votes |-> votes, tie_breaker |-> tie_breaker]
    /\ driver = "none"
    /\ pc = "call_run_vote"
    /\ result = None
    /\ emitted = <<>>
    /\ ret = None
    /\ brief = None
    /\ acts = 0

\* run_vote from the VoteEvents on: the events, the tally, the tie breaker
\* and the VoteResultEvent
CallRunVote ==
    /\ pc = "call_run_vote"
    /\ \E outcome \in VoteOutcomes(loc.votes, loc.tie_breaker) :
          LET events == VoteEvents(state, loc.votes)
                          \o <<VoteResultEvent(state.day, "DAY_VOTE", Tally(loc.votes),
                                               outcome[1], outcome[2])>>
          IN /\ state' = WithEvents(state, events)
             /\ emitted' = emitted \o events
             /\ ret' = [fn |-> "run_vote", arg |-> state, votes |-> loc.votes,
                        tie_breaker |-> loc.tie_breaker,
                        state |-> WithEvents(state, events), events |-> events]
    /\ pc' = "voted"
    /\ UNCHANGED <<driver, loc, result, brief, acts>>

\* run_vote_result on the VoteResultEvent run_vote appended
CallRunVoteResult ==
    /\ pc = "voted"
    /\ LET r == RunVoteResult(state, LastVoteResult(state))
       IN /\ state' = r[1]
          /\ emitted' = emitted \o r[2]
          /\ ret' = [fn |-> "run_vote_result", arg |-> state,
                     vote_result |-> LastVoteResult(state),
                     state |-> r[1], events |-> r[2]]
    /\ pc' = "returned"
    /\ UNCHANGED <<driver, loc, result, brief, acts>>

VoteNext == CallRunVote \/ CallRunVoteResult

VoteSpec == VoteInit /\ [][VoteNext]_vars

-----------------------------------------------------------------------------
(* C21 *)

VoteReturned == pc = "voted" /\ ret.fn = "run_vote"

\* the number of entries of votes cast for target
VotesFor(votes, target) ==
    Cardinality({i \in 1..Len(votes) : votes[i].target_id = target})

\* the targets named by at least one non-null vote
Voted(votes) == {votes[i].target_id : i \in 1..Len(votes)} \ {Null}

\* the voted targets no other target has more votes than
Highest(votes) ==
    {t \in Voted(votes) : \A u \in Voted(votes) : VotesFor(votes, u) <= VotesFor(votes, t)}

\* C21: the tally of run_vote counts exactly the non-null votes by target; a
\* single target with the highest count is the eliminated_id with tie false;
\* several targets sharing the highest count give tie true and eliminated_id
\* null under "no_elimination" or one of the tied targets under "random";
\* all abstaining gives eliminated_id null and tie false
C21_Tally ==
    VoteReturned =>
        LET votes == ret.votes
            vote_result == ret.events[Len(ret.events)]
        IN /\ vote_result.type = "VoteResultEvent"
           /\ DOMAIN vote_result.tally = Voted(votes)
           /\ \A t \in Voted(votes) : vote_result.tally[t] = VotesFor(votes, t)
           /\ Voted(votes) = {} =>
                 vote_result.eliminated_id = Null /\ ~vote_result.tie
           /\ Cardinality(Highest(votes)) = 1 =>
                 vote_result.eliminated_id \in Highest(votes) /\ ~vote_result.tie
           /\ Cardinality(Highest(votes)) > 1 =>
                 /\ vote_result.tie
                 /\ ret.tie_breaker = "no_elimination" => vote_result.eliminated_id = Null
                 /\ ret.tie_breaker = "random" => vote_result.eliminated_id \in Highest(votes)

\* the tally {p1: 2, p2: 2, p3: 1} under "no_elimination"
C21_Witness ==
    /\ VoteReturned
    /\ ret.tie_breaker = "no_elimination"
    /\ Voted(ret.votes) = {"p1", "p2", "p3"}
    /\ VotesFor(ret.votes, "p1") = 2
    /\ VotesFor(ret.votes, "p2") = 2
    /\ VotesFor(ret.votes, "p3") = 1
    /\ ret.events[Len(ret.events)].tie
    /\ ret.events[Len(ret.events)].eliminated_id = Null

-----------------------------------------------------------------------------
(* C22 *)

\* the step of run_vote that emits the events of the vote phase
VoteEmitted == pc = "vote" /\ pc' = "vote_result"

\* the ids of the players alive in st, as a set
AliveIds(st) ==
    {st.players[i].player_id : i \in {j \in 1..Len(st.players) : st.players[j].is_alive}}

\* C22: in a vote phase every alive player casts exactly one vote: the phase
\* emits exactly one VoteEvent per alive player (an abstention with a null
\* target), all of them before the single VoteResultEvent of the phase, and
\* none for a dead player
C22_OneVoteEach ==
    [][VoteEmitted =>
        /\ Len(loc.votes) = Cardinality(AliveIds(state))
        /\ \A pid \in AliveIds(state) :
              /\ Cardinality({i \in 1..Len(loc.votes) : loc.votes[i].voter_id = pid}) = 1
              /\ Cardinality({i \in 1..Len(NewEvents) :
                                 /\ NewEvents[i].type = "VoteEvent"
                                 /\ NewEvents[i].voter_id = pid}) = 1
        /\ \A i \in 1..Len(NewEvents) :
              NewEvents[i].type = "VoteEvent" => NewEvents[i].voter_id \in AliveIds(state)
        /\ Cardinality({i \in 1..Len(NewEvents) :
                           NewEvents[i].type = "VoteResultEvent"}) = 1
        /\ Len(NewEvents) = Cardinality(AliveIds(state)) + 1
        /\ NewEvents[Len(NewEvents)].type = "VoteResultEvent"
        /\ \A i \in 1..(Len(NewEvents) - 1) : NewEvents[i].type = "VoteEvent"
        /\ \A i \in 1..Len(state.events) :
              state.events[i].type \in {"VoteEvent", "VoteResultEvent"}
                 => state.events[i].day < state.day]_vars

\* a vote phase with a dead player has emitted its events, a cast vote and
\* an abstention among them
C22_Witness ==
    /\ pc = "vote_result"
    /\ \E i \in 1..Len(state.players) : ~state.players[i].is_alive
    /\ Last(state.events).type = "VoteResultEvent"
    /\ \E i, j \in 1..Len(state.events) :
          /\ state.events[i].type = "VoteEvent"
          /\ state.events[j].type = "VoteEvent"
          /\ state.events[i].day = state.day
          /\ state.events[j].day = state.day
          /\ state.events[i].target_id # Null
          /\ state.events[j].target_id = Null

-----------------------------------------------------------------------------
(* C23 *)

VoteResultReturned == pc = "returned" /\ ret.fn = "run_vote_result"

\* C23: run_vote changes no player's is_alive; run_vote_result with a
\* non-null eliminated_id marks exactly that player dead and appends exactly
\* one EliminationEvent with cause "vote" for that player, and with a null
\* eliminated_id it returns the state unchanged
C23_VoteFrame ==
    /\ VoteReturned =>
          /\ ret.state.players = ret.arg.players
          /\ ret.state.day = ret.arg.day
          /\ ret.state.phase = ret.arg.phase
    /\ VoteResultReturned =>
          IF ret.vote_result.eliminated_id = Null
          THEN ret.state = ret.arg /\ ret.events = <<>>
          ELSE /\ Len(ret.state.players) = Len(ret.arg.players)
               /\ \A i \in 1..Len(ret.arg.players) :
                     IF ret.arg.players[i].player_id = ret.vote_result.eliminated_id
                     THEN /\ ret.arg.players[i].is_alive
                          /\ ~ret.state.players[i].is_alive
                          /\ ret.state.players[i]
                               = [ret.arg.players[i] EXCEPT !.is_alive = FALSE]
                     ELSE ret.state.players[i] = ret.arg.players[i]
               /\ Len(ret.state.events) = Len(ret.arg.events) + 1
               /\ IsPrefix(ret.arg.events, ret.state.events)
               /\ Last(ret.state.events).type = "EliminationEvent"
               /\ Last(ret.state.events).cause = "vote"
               /\ Last(ret.state.events).player_id = ret.vote_result.eliminated_id
               /\ ret.events = <<Last(ret.state.events)>>

\* run_vote_result has eliminated the player a vote with abstentions chose,
\* while another player was already dead
C23_Witness ==
    /\ VoteResultReturned
    /\ ret.vote_result.eliminated_id # Null
    /\ \E i \in 1..Len(ret.arg.players) : ~ret.arg.players[i].is_alive
    /\ \E i \in 1..Len(ret.state.players) :
          /\ ret.state.players[i].player_id = ret.vote_result.eliminated_id
          /\ ret.arg.players[i].is_alive
          /\ ~ret.state.players[i].is_alive
    /\ Last(ret.state.events).cause = "vote"

-----------------------------------------------------------------------------
(* C24 *)

\* the messages of the SpeechEvents of the "wolf" channel of the current
\* night, in the order of the log
WolfSpeechesOfNight(st) ==
    LET said == SelectSeq(st.events, LAMBDA e : /\ e.type = "SpeechEvent"
                                                /\ e.channel = "wolf"
                                                /\ e.day = st.day)
    IN [i \in 1..Len(said) |-> [speaker |-> said[i].player_id, content |-> said[i].content]]

AliveWolfIds(st) == {p \in AliveIds(st) : GetPlayer(st, p).team = "werewolf"}

\* the lines of a briefing that quote earlier wolf-chat messages
WolfChatLines(text) == SelectSeq(text, LAMBDA l : l.line = "wolf_chat_messages")

\* C24: the wolf-chat sub-round of a night runs iff wolf chat is enabled and
\* at least two wolves are alive, and is over before a night ability is
\* asked for; a wolf asked in it is an alive wolf that has not spoken in this
\* sub-round, its briefing quotes exactly the messages of the wolves that
\* spoke earlier in this sub-round, in order; what it says becomes one
\* SpeechEvent on the "wolf" channel; nobody but a wolf is asked
C24_WolfChat ==
    [][ /\ (state.phase # "NIGHT" /\ state'.phase = "NIGHT") =>
              /\ pc' \in {"wolf_chat", "night"}
              /\ pc' = "wolf_chat" <=>
                    (loc'.cfg.allow_wolf_chat /\ Cardinality(AliveWolfIds(state')) >= 2)
              /\ pc' = "wolf_chat" =>
                    /\ Range(loc'.queue) = AliveWolfIds(state')
                    /\ Len(loc'.queue) = Cardinality(AliveWolfIds(state'))
        /\ pc' = "wolf_chat" => (pc = "wolf_chat" \/ state.phase # "NIGHT")
        /\ pc = "wolf_chat" =>
              /\ state.night_actions = <<>>
              /\ state'.night_actions = <<>>
              /\ loc.queue # <<>>
              /\ loc'.queue = (IF pc' = "wolf_chat" THEN Tail(loc.queue) ELSE loc'.queue)
              /\ pc' = "night" <=> Len(loc.queue) = 1
              /\ Len(NewEvents) <= 1
              /\ HasToolkit =>
                    /\ brief' # brief
                    /\ brief'.kind = "wolf_chat"
                    /\ brief'.to = Head(loc.queue)
                    /\ brief'.to \in AliveWolfIds(state)
                    /\ \A i \in 1..Len(WolfSpeechesOfNight(state)) :
                          WolfSpeechesOfNight(state)[i].speaker # brief'.to
                    /\ WolfChatLines(brief'.text)
                         = (IF WolfSpeechesOfNight(state) = <<>> THEN <<>>
                            ELSE <<[line |-> "wolf_chat_messages",
                                    messages |-> WolfSpeechesOfNight(state)]>>)
                    /\ \A i \in 1..Len(NewEvents) :
                          /\ NewEvents[i].type = "SpeechEvent"
                          /\ NewEvents[i].channel = "wolf"
                          /\ NewEvents[i].phase = "NIGHT"
                          /\ NewEvents[i].player_id = brief'.to
              /\ ~HasToolkit => NewEvents = <<>> /\ brief' = brief
        /\ (pc # "wolf_chat" /\ brief' # brief) => brief'.kind # "wolf_chat"
        /\ \A i \in 1..Len(NewEvents) :
              (NewEvents[i].type = "SpeechEvent" /\ NewEvents[i].channel = "wolf")
                 => pc = "wolf_chat" ]_vars

\* the third wolf of a pack has been briefed with the messages of the two
\* wolves that spoke before it
C24_Witness ==
    /\ brief # None
    /\ brief.kind = "wolf_chat"
    /\ brief.to = "p3"
    /\ WolfChatLines(brief.text)
         = <<[line |-> "wolf_chat_messages",
              messages |-> <<[speaker |-> "p1", content |-> "msg"],
                             [speaker |-> "p2", content |-> "msg"]>>]>>
    /\ pc = "night"
    /\ state.night_actions = <<>>

-----------------------------------------------------------------------------
(* C25 *)

\* the speeches of the public channel made in the discussion of the current
\* day, in the order of the log
SpeechesOfDiscussion(st) ==
    LET said == SelectSeq(st.events, LAMBDA e : /\ e.type = "SpeechEvent"
                                                /\ e.channel = "public"
                                                /\ e.phase = "DAY_DISCUSSION"
                                                /\ e.day = st.day)
    IN [i \in 1..Len(said) |-> [speaker |-> said[i].player_id, content |-> said[i].content]]

\* the lines of a briefing that quote the discussion so far
DiscussionLines(text) == SelectSeq(text, LAMBDA l : l.line = "discussion_so_far")

\* C25: run_discussion asks, in each of the configured rounds, every alive
\* player to speak exactly once, in the order of the players collection, the
\* same in every round; each briefing quotes all speeches made so far in this
\* discussion, in order, and none made later
C25_Discussion ==
    [][ /\ (pc # "discussion" /\ pc' = "discussion") =>
              LET alive == PlayerIds(GetAlivePlayers(state'))
              IN /\ Len(loc'.queue) = loc'.cfg.discussion_rounds * Len(alive)
                 /\ \A k \in 1..Len(loc'.queue) :
                       loc'.queue[k] = alive[((k - 1) % Len(alive)) + 1]
                 /\ SpeechesOfDiscussion(state') = <<>>
        /\ (pc = "discussion" /\ loc.queue # <<>>) =>
              /\ brief' # brief
              /\ brief'.kind = "discussion"
              /\ brief'.to = Head(loc.queue)
              /\ brief'.to \in AliveIds(state)
              /\ loc'.queue = Tail(loc.queue)
              /\ DiscussionLines(brief'.text)
                   = (IF SpeechesOfDiscussion(state) = <<>> THEN <<>>
                      ELSE <<[line |-> "discussion_so_far",
                              messages |-> SpeechesOfDiscussion(state)]>>)
              /\ AliveFlags(state') = AliveFlags(state)
        /\ (pc # "discussion" /\ brief' # brief) => brief'.kind # "discussion" ]_vars

\* the same, for the games of the session runner only
C25_RunnerOnly ==
    [][ driver = "runner" =>
        /\ (pc # "discussion" /\ pc' = "discussion") =>
              LET alive == PlayerIds(GetAlivePlayers(state'))
              IN /\ Len(loc'.queue) = loc'.cfg.discussion_rounds * Len(alive)
                 /\ \A k \in 1..Len(loc'.queue) :
                       loc'.queue[k] = alive[((k - 1) % Len(alive)) + 1]
                 /\ SpeechesOfDiscussion(state') = <<>>
        /\ (pc = "discussion" /\ loc.queue # <<>>) =>
              /\ brief' # brief
              /\ brief'.kind = "discussion"
              /\ brief'.to = Head(loc.queue)
              /\ brief'.to \in AliveIds(state)
              /\ loc'.queue = Tail(loc.queue)
              /\ DiscussionLines(brief'.text)
                   = (IF SpeechesOfDiscussion(state) = <<>> THEN <<>>
                      ELSE <<[line |-> "discussion_so_far",
                              messages |-> SpeechesOfDiscussion(state)]>>)
              /\ AliveFlags(state') = AliveFlags(state)
        /\ (pc # "discussion" /\ brief' # brief) => brief'.kind # "discussion" ]_vars

\* in the second round of a discussion a player is briefed with the two
\* speeches of the first round
C25_RunnerWitness ==
    /\ driver = "runner"
    /\ pc = "discussion"
    /\ loc.cfg.discussion_rounds = 2
    /\ Len(loc.queue) < Cardinality(AliveIds(state))
    /\ brief # None
    /\ brief.kind = "discussion"
    /\ Len(SpeechesOfDiscussion(state)) = 2
    /\ DiscussionLines(brief.text)
         = <<[line |-> "discussion_so_far", messages |-> SpeechesOfDiscussion(state)]>>

-----------------------------------------------------------------------------
(* C26 *)

\* C26: every finished game returns a GameEndEvent whose winning_team is
\* "village" or "werewolf", also when it ends at the max-day cutoff, and
\* whose winners are exactly the players of that team
C26_ValidWinner ==
    Done =>
        /\ result.type = "GameEndEvent"
        /\ result.winning_team \in {"village", "werewolf"}
        /\ WinnersAre(result, state, result.winning_team)

\* the same for the games that end by a victory check, and for the cutoff
\* of Game.run
C26_ExceptRunnerCutoff ==
    (Done /\ ~(driver = "runner" /\ result.reason = "max_days")) =>
        /\ result.type = "GameEndEvent"
        /\ result.winning_team \in {"village", "werewolf"}
        /\ WinnersAre(result, state, result.winning_team)

-----------------------------------------------------------------------------
(* C27 *)

\* what random.choice drew in a run of resolve_night: the adopted kill
\* target, which ends up in kills or in saved
DrawOf(events) == events[1].kills \o events[1].saved

\* C27: for the same state and the same submitted actions, with the same
\* draw of the seeded random generator, resolve_night returns the same new
\* state and the same event list on every run
C27_Deterministic ==
    ResolveReturned =>
        \A out \in ResolveNight(ret.arg) :
            DrawOf(out.events) = DrawOf(ret.events)
               => out.state = ret.state /\ out.events = ret.events

\* events with the protected list of the NightResultEvents read as a set
ProtectedAsSet(events) ==
    [i \in 1..Len(events) |->
        IF events[i].type = "NightResultEvent"
        THEN [events[i] EXCEPT !.protected = Range(@)]
        ELSE events[i]]

\* the same up to the order of the protected list
C27_UpToProtectedOrder ==
    ResolveReturned =>
        \A out \in ResolveNight(ret.arg) :
            DrawOf(out.events) = DrawOf(ret.events)
               => /\ ProtectedAsSet(out.events) = ProtectedAsSet(ret.events)
                  /\ ProtectedAsSet(out.state.events) = ProtectedAsSet(ret.state.events)
                  /\ out.state.players = ret.state.players
                  /\ out.state.night_actions = ret.state.night_actions

\* the tally, the tie flag and, but for the draw of the "random" tie
\* breaker, the eliminated_id of run_vote are the same on every run
C27_VoteDeterministic ==
    VoteReturned =>
        \A outcome \in VoteOutcomes(ret.votes, ret.tie_breaker) :
            /\ outcome[2] = Last(ret.events).tie
            /\ (outcome[1] = Last(ret.events).eliminated_id
                \/ (ret.tie_breaker = "random" /\ outcome[2]))

-----------------------------------------------------------------------------
(* C28 *)

\* run_vote and resolve_night as functions, in one specification
FunctionsInit == ResolveInit \/ VoteInit

FunctionsNext == ResolveNext \/ VoteNext

FunctionsSpec == FunctionsInit /\ [][FunctionsNext]_vars

\* all orders of the entries of the sequence s
Orderings(s) == {[i \in 1..Len(s) |-> s[f[i]]] : f \in SeqsOver(1..Len(s))}

\* the PrivateRevealEvents among events, as a set
RevealsOf(events) == Range(OfType(events, "PrivateRevealEvent"))

\* C28: for any order in which the same night actions were recorded
\* resolve_night yields the same kills, the same saved, the same protected
\* set and the same private reveals; for any order in which the same votes
\* were recorded run_vote yields the same tally, the same tie flag and, under
\* "no_elimination", the same eliminated_id
C28_OrderIndependent ==
    /\ ResolveReturned =>
          \A nas \in Orderings(ret.arg.night_actions) :
             \A out \in ResolveNight([ret.arg EXCEPT !.night_actions = nas]) :
                /\ out.events[1].type = "NightResultEvent"
                /\ out.events[1].kills = ret.events[1].kills
                /\ out.events[1].saved = ret.events[1].saved
                /\ Range(out.events[1].protected) = Range(ret.events[1].protected)
                /\ RevealsOf(out.events) = RevealsOf(ret.events)
                /\ Len(OfType(out.events, "PrivateRevealEvent"))
                     = Len(OfType(ret.events, "PrivateRevealEvent"))
                /\ AliveFlags(out.state) = AliveFlags(ret.state)
    /\ VoteReturned =>
          \A votes \in Orderings(ret.votes) :
             /\ Tally(votes) = Last(ret.events).tally
             /\ \A outcome \in VoteOutcomes(votes, ret.tie_breaker) :
                   /\ outcome[2] = Last(ret.events).tie
                   /\ ret.tie_breaker = "no_elimination"
                         => outcome[1] = Last(ret.events).eliminated_id

\* resolve_night has resolved a night with two kill votes for the same
\* target, a protection and an investigation
C28_Witness ==
    /\ ResolveReturned
    /\ Len(ret.arg.night_actions) >= 4
    /\ ret.events[1].kills # <<>>
    /\ ret.events[1].protected # <<>>
    /\ RevealsOf(ret.events) # {}

\* run_vote has tallied five votes with a tie under "no_elimination"
C28_VoteWitness ==
    /\ VoteReturned
    /\ Len(ret.votes) = 5
    /\ ret.tie_breaker = "no_elimination"
    /\ Last(ret.events).tie

-----------------------------------------------------------------------------
(* Specification of resolve_night on states that break the structure of a
   night: an ability that is none of the actor's role, an actor whose role
   is not registered *)

\* the role of the fifth player: "jester" is no registered role
StructRoles == {"villager", "jester"}

StructPlayers(role) ==
    <<PlayerSlot("p1", "werewolf", "werewolf"), PlayerSlot("p2", "seer", "village"),
      PlayerSlot("p3", "doctor", "village"), PlayerSlot("p4", "villager", "village"),
      PlayerSlot("p5", role, "village")>>

\* the actions an agent can hand to run_night for pid: "howl" is no ability
\* of any role
StructActions(pid) ==
    {NoAction(pid, "no_ability_used")}
    \cup {UseAbilityAction(pid, ability, target) :
            ability \in {"kill", "protect", "investigate", "howl"},
            target \in {"p2", "p4"}}

StructInit ==
    /\ \E role \in StructRoles :
         \E a1 \in StructActions("p1"), a2 \in StructActions("p2"),
            a5 \in StructActions("p5") :
            state = WithNightAction(
                      WithNightAction(
                        WithNightAction(GameState(1, "DAWN", StructPlayers(role)), "p1", a1),
                        "p2", a2),
                      "p5", a5)
    /\ driver = "none"
    /\ pc = "call"
    /\ loc = None
    /\ result = None
    /\ emitted = <<>>
    /\ ret = None
    /\ brief = None
    /\ acts = 0

StructSpec == StructInit /\ [][ResolveNext]_vars

-----------------------------------------------------------------------------
(* C29 *)

\* the priority the role of the player gives the ability, 50 when the role
\* has no ability of that name or is not registered
ClaimedPriority(role_name, ability_name) ==
    IF \E r \in RoleRegistry :
          r.name = role_name /\ \E i \in 1..Len(r.abilities) : r.abilities[i].name = ability_name
    THEN LET r == CHOOSE r \in RoleRegistry : r.name = role_name
         IN r.abilities[CHOOSE i \in 1..Len(r.abilities) :
                           r.abilities[i].name = ability_name].priority
    ELSE 50

\* the UseAbilityAction entries of the argument of the call
UsedEntries(st) == SelectSeq(st.night_actions, LAMBDA e : e.action.type = "UseAbilityAction")

\* the call resolved every submitted ability with the claimed priority, in
\* ascending order of priority, and returned its NightResultEvent
Resolved ==
    /\ ret.raised = Null
    /\ ret.events # <<>>
    /\ ret.events[1].type = "NightResultEvent"
    /\ Len(ret.night_actions) = Len(UsedEntries(ret.arg))
    /\ \A i \in 1..Len(ret.night_actions) :
          /\ ret.night_actions[i].priority
               = ClaimedPriority(GetPlayer(ret.arg, ret.night_actions[i].player_id).role,
                                 ret.night_actions[i].ability)
          /\ \A j \in 1..(i - 1) :
                ret.night_actions[j].priority <= ret.night_actions[i].priority

\* C29: resolve_night is never fatal on a structural violation: an action
\* whose ability is none of its player's role gets the default priority 50,
\* an action of a player whose role is not in the registry likewise, and
\* the resolution completes
C29_NeverFatal == ResolveReturned => Resolved

\* the same when the role of every acting player is registered
C29_RegisteredRoles ==
    (/\ ResolveReturned
     /\ \A i \in 1..Len(UsedEntries(ret.arg)) :
           RegistryHas(GetPlayer(ret.arg, UsedEntries(ret.arg)[i].player_id).role))
       => Resolved

\* a seer's "howl" and a werewolf's "protect" were resolved with priority 50
C29_RegisteredWitness ==
    /\ ResolveReturned
    /\ ret.raised = Null
    /\ \E i, j \in 1..Len(ret.night_actions) :
          /\ ret.night_actions[i].player_id = "p2"
          /\ ret.night_actions[i].ability = "howl"
          /\ ret.night_actions[i].priority = 50
          /\ ret.night_actions[j].player_id = "p1"
          /\ ret.night_actions[j].ability = "protect"
          /\ ret.night_actions[j].priority = 50

-----------------------------------------------------------------------------
(* Specification of event dispatch: Moderator.emit_event and Game._emit,   *)
(* which are the same loop over event_listeners. A listener is the set of  *)
(* the events it raises on; calls is the log of the listener calls made.   *)

MaxListeners == 3

MaxEmits == 2

EmitEvents ==
    { PhaseChangeEvent(0, "SETUP", "SETUP", "NIGHT"),
      SpeechEvent(1, "DAY_DISCUSSION", "p1", "msg", "public") }

\* one call listener(event) of the loop
ListenerCall(listeners, i, event) ==
    [listener |-> i, event |-> event, raised |-> event \in listeners[i]]

\* an emit loop without the try/except: the first raise ends the loop
DeliveriesUntilRaise(listeners, event) ==
    LET raising == {i \in 1..Len(listeners) : event \in listeners[i]}
        last == IF raising = {} THEN Len(listeners)
                ELSE CHOOSE i \in raising : \A j \in raising : i <= j
    IN [i \in 1..last |-> ListenerCall(listeners, i, event)]

\* the calls of one emit: every listener in the order of event_listeners,
\* an exception of a listener caught and logged
Deliveries(listeners, event) ==
    [i \in 1..Len(listeners) |-> ListenerCall(listeners, i, event)]

EmitInit ==
    /\ state = GameState(1, "NIGHT", AssignRoles(<<"werewolf", "seer", "doctor">>))
    /\ \E n \in 0..MaxListeners : \E listeners \in [1..n -> SUBSET EmitEvents] :
          loc = [listeners |-> listeners, calls |-> <<>>, logged |-> 0]
    /\ driver = "none"
    /\ pc = "emit"
    /\ result = None
    /\ emitted = <<>>
    /\ ret = None
    /\ brief = None
    /\ acts = 0

\* emit_event(event)
EmitEvent ==
    /\ pc = "emit"
    /\ Len(emitted) < MaxEmits
    /\ \E event \in EmitEvents :
          LET made == Deliveries(loc.listeners, event)
          IN /\ emitted' = Append(emitted, event)
             /\ loc' = [loc EXCEPT !.calls = @ \o made,
                                   !.logged = @ + Len(SelectSeq(made, LAMBDA c : c.raised))]
    /\ UNCHANGED <<state, driver, pc, result, ret, brief, acts>>

EmitNext == EmitEvent

EmitSpec == EmitInit /\ [][EmitNext]_vars

-----------------------------------------------------------------------------
(* C30 *)

\* the listener calls made by the step
NewCalls == SubSeq(loc'.calls, Len(loc.calls) + 1, Len(loc'.calls))

\* C30: an emitted event is delivered, before the emit returns, to every
\* registered listener in registration order; when a listener raises the
\* remaining listeners still receive the event, the game state is left as it
\* was and the game goes on
C30_Delivery ==
    [][ emitted' # emitted =>
          /\ Len(emitted') = Len(emitted) + 1
          /\ IsPrefix(loc.calls, loc'.calls)
          /\ Len(NewCalls) = Len(loc.listeners)
          /\ \A i \in 1..Len(NewCalls) :
                /\ NewCalls[i].listener = i
                /\ NewCalls[i].event = Last(emitted')
          /\ loc'.listeners = loc.listeners
          /\ state' = state
          /\ pc' = pc ]_vars

\* the first of three listeners raised on both of two events, and the other
\* two received both
C30_Witness ==
    /\ pc = "emit"
    /\ Len(emitted) = 2
    /\ Len(loc.listeners) = 3
    /\ Len(loc.calls) = 6
    /\ loc.calls[1].raised /\ loc.calls[4].raised
    /\ loc.calls[2].event = emitted[1] /\ loc.calls[3].event = emitted[1]
    /\ loc.calls[5].event = emitted[2] /\ loc.calls[6].event = emitted[2]
    /\ loc.logged >= 2

-----------------------------------------------------------------------------
(* C31 *)

\* what the claim says of one step of run_phase
TurnStep ==
    /\ pc' # "raised"
    /\ loc'.llm_calls <= loc.rounds
    /\ loc'.llm_calls <= loc.llm_calls + 1
    /\ pc' = "returned" =>
          /\ ret'.raised = Null
          /\ ret'.action # None
          /\ ret'.action.type \in {"NoAction", "VoteAction", "UseAbilityAction", "SpeakAction"}
    /\ (loc'.call # None /\ loc'.call.result.is_terminal /\ loc'.call.result.action # None) =>
          /\ pc' = "returned"
          /\ ret'.action = loc'.call.result.action
          /\ ~loc'.forced
    /\ (loc'.call # None /\ ~loc'.call.result.is_terminal) =>
          /\ loc'.call.result.action = None
          /\ IF loc.round_num < loc.rounds - 1
             THEN pc' = "round" /\ loc'.round_num = loc.round_num + 1
             ELSE pc' = "returned" /\ loc'.forced
    /\ (loc'.call = None /\ pc' = "returned" /\ ~loc'.forced) =>
          ret'.action = NoAction(loc.player_id, "llm_error")
    /\ loc'.forced =>
          /\ loc.round_num = loc.rounds - 1
          /\ pc' = "returned"
          /\ ret'.action
               = (IF "pass_turn" \in TerminalNames(loc.kind)
                  THEN NoAction(loc.player_id, "pass_turn")
                  ELSE NoAction(loc.player_id, "max_rounds_forced"))

\* C31: run_phase is total and bounded for any toolkit and any LLM
\* behaviour: it never raises and returns an Action after at most max_rounds
\* LLM calls; the first terminal invocation that yields an Action ends the
\* turn, informational and unknown tools do not, a failed LLM call yields
\* NoAction, and at the end of the budget pass_turn, else NoAction, is forced
C31_Total == [][TurnStep]_vars

\* the same for the toolkits that hold a terminal tool
C31_WithTerminalTool == [][TerminalNames(loc.kind) # {} => TurnStep]_vars

\* a turn on a toolkit without pass_turn has used its whole budget and was
\* ended with the forced NoAction
C31_ForcedWitness ==
    /\ pc = "returned"
    /\ loc.kind = "vote_only"
    /\ loc.forced
    /\ loc.llm_calls = MAX_ROUNDS
    /\ ret.action = NoAction(loc.player_id, "max_rounds_forced")

-----------------------------------------------------------------------------
(* Copy-on-write updates of GameState (engine/state.py): the night_actions
   dict is the one mutable object a GameState refers to, so the states are
   objects holding a reference into a heap of dicts *)

\* calls of one chain of updates
MaxChain == 3

\* the GameState an object stands for: its night_actions reference followed
Deref(heap, obj) == [obj EXCEPT !.night_actions = heap[obj.night_actions]]

\* DictCopy that hands back the dict itself instead of a copy
DictCopyAliased(heap, ref) == [heap |-> heap, ref |-> ref]

\* dict(self.night_actions): a new dict with the entries of the old one
DictCopy(heap, ref) == [heap |-> Append(heap, heap[ref]), ref |-> Len(heap) + 1]

\* dataclasses.replace with no night_actions argument: the copy refers to
\* the dict of the receiver
ObjWithPhase(heap, obj, phase) == [heap |-> heap, obj |-> WithPhase(obj, phase)]

ObjWithDay(heap, obj, day) == [heap |-> heap, obj |-> WithDay(obj, day)]

ObjWithPlayerKilled(heap, obj, pid) == [heap |-> heap, obj |-> WithPlayerKilled(obj, pid)]

ObjWithEvent(heap, obj, event) == [heap |-> heap, obj |-> WithEvent(obj, event)]

\* with_night_action: the entry is stored into the copy of the dict
ObjWithNightAction(heap, obj, pid, action) ==
    LET c == DictCopy(heap, obj.night_actions)
        stored == WithNightAction([night_actions |-> c.heap[c.ref]], pid, action)
    IN [heap |-> [c.heap EXCEPT ![c.ref] = stored.night_actions],
        obj |-> [obj EXCEPT !.night_actions = c.ref]]

\* clear_night_actions: the copy refers to a new empty dict
ObjClearNightActions(heap, obj) ==
    [heap |-> Append(heap, <<>>), obj |-> [obj EXCEPT !.night_actions = Len(heap) + 1]]

\* the receivers of test_state.py: three players, the third possibly dead,
\* possibly with a recorded night action
ChainReceivers ==
    { [GameState(1, "NIGHT",
                 WithDead(AssignRoles(<<"werewolf", "seer", "villager">>), dead))
         EXCEPT !.night_actions = na] :
        dead \in {{}, {3}},
        na \in {<<>>, <<[player_id |-> "p1",
                         action |-> UseAbilityAction("p1", "kill", "p2")]>>} }

\* the calls of a chain: the method and its arguments
ChainCalls ==
    { [fn |-> "with_phase", phase |-> "GAME_OVER"],
      [fn |-> "with_day", day |-> 99],
      [fn |-> "with_player_killed", player_id |-> "p2"],
      [fn |-> "with_player_killed", player_id |-> "p9"],
      [fn |-> "with_night_action", player_id |-> "p1",
       action |-> UseAbilityAction("p1", "kill", "p3")],
      [fn |-> "with_night_action", player_id |-> "p2",
       action |-> UseAbilityAction("p2", "investigate", "p1")],
      [fn |-> "with_event",
       event |-> SpeechEvent(99, "GAME_OVER", "p1", "x", "public")],
      [fn |-> "clear_night_actions"] }

ApplyCall(heap, obj, call) ==
    CASE call.fn = "with_phase" -> ObjWithPhase(heap, obj, call.phase)
      [] call.fn = "with_day" -> ObjWithDay(heap, obj, call.day)
      [] call.fn = "with_player_killed" -> ObjWithPlayerKilled(heap, obj, call.player_id)
      [] call.fn = "with_night_action" ->
            ObjWithNightAction(heap, obj, call.player_id, call.action)
      [] call.fn = "with_event" -> ObjWithEvent(heap, obj, call.event)
      [] call.fn = "clear_night_actions" -> ObjClearNightActions(heap, obj)

ChainInit ==
    /\ state \in ChainReceivers
    /\ driver = "none"
    /\ pc = "chain"
    /\ loc = [heap |-> <<state.night_actions>>,
              objs |-> <<[state EXCEPT !.night_actions = 1]>>]
    /\ result = None
    /\ emitted = <<>>
    /\ ret = None
    /\ brief = None
    /\ acts = <<>>

\* one call on any of the states built so far; ret keeps what every state
\* was before the call
ChainCall ==
    /\ pc = "chain"
    /\ Len(loc.objs) <= MaxChain
    /\ \E receiver \in 1..Len(loc.objs), call \in ChainCalls :
          LET r == ApplyCall(loc.heap, loc.objs[receiver], call)
          IN /\ loc' = [heap |-> r.heap, objs |-> Append(loc.objs, r.obj)]
             /\ ret' = [fn |-> call.fn, call |-> call, receiver |-> receiver,
                        before |-> [k \in 1..Len(loc.objs) |->
                                       Deref(loc.heap, loc.objs[k])]]
    /\ UNCHANGED <<state, driver, pc, result, emitted, brief, acts>>

ChainNext == ChainCall

ChainSpec == ChainInit /\ [][ChainNext]_vars

(* C32 *)

ChainReturned == pc = "chain" /\ ret # None

\* the state the last call returned and the state it was called on, as the
\* latter was before the call
Returned == Deref(loc.heap, loc.objs[Len(loc.objs)])

Receiver == ret.before[ret.receiver]

\* what the call is to return: the receiver with the targeted field changed
Targeted ==
    LET c == ret.call
        old == Receiver
    IN CASE c.fn = "with_phase" -> [old EXCEPT !.phase = c.phase]
         [] c.fn = "with_day" -> [old EXCEPT !.day = c.day]
         [] c.fn = "with_player_killed" ->
               [old EXCEPT !.players =
                   [i \in 1..Len(old.players) |->
                       IF old.players[i].player_id = c.player_id
                       THEN [old.players[i] EXCEPT !.is_alive = FALSE]
                       ELSE old.players[i]]]
         [] c.fn = "with_night_action" ->
               [old EXCEPT !.night_actions =
                   IF \E i \in 1..Len(@) : @[i].player_id = c.player_id
                   THEN [i \in 1..Len(@) |->
                           IF @[i].player_id = c.player_id
                           THEN [player_id |-> c.player_id, action |-> c.action]
                           ELSE @[i]]
                   ELSE Append(@, [player_id |-> c.player_id, action |-> c.action])]
         [] c.fn = "with_event" -> [old EXCEPT !.events = Append(@, c.event)]
         [] c.fn = "clear_night_actions" -> [old EXCEPT !.night_actions = <<>>]

\* C32: each of with_phase, with_day, with_player_killed, with_night_action,
\* with_event and clear_night_actions returns a new state that differs from
\* the receiver in the targeted field only, and leaves the receiver and every
\* state built earlier in the chain, their night_actions and event logs
\* included, as they were
C32_CopyOnWrite ==
    ChainReturned =>
        /\ Returned = Targeted
        /\ \A k \in 1..Len(ret.before) : Deref(loc.heap, loc.objs[k]) = ret.before[k]
        /\ Deref(loc.heap, loc.objs[1]) = state

\* a third call of a chain recorded a night action on a state whose dict
\* another state of the chain refers to
C32_Witness ==
    /\ ChainReturned
    /\ Len(loc.objs) = MaxChain + 1
    /\ ret.fn = "with_night_action"
    /\ \E k \in 1..Len(ret.before) :
          /\ k # ret.receiver
          /\ loc.objs[k].night_actions = loc.objs[ret.receiver].night_actions
    /\ Returned.night_actions # Receiver.night_actions

-----------------------------------------------------------------------------
(* Batch of games with cross-game memories (session/batch.py,
   session/runner.py, agents/knowledge_base.py) *)

\* games of a batch
MaxGames == 2
\* notes a player writes in one game
MaxNotes == 2

\* display names of the players: the same in every game of a batch
BatchNames == <<"Player_1", "Player_2">>

EmptyDict == [n \in {} |-> <<>>]

\* s[-n:]
LastN(s, n) == IF Len(s) <= n THEN s ELSE SubSeq(s, Len(s) - n + 1, Len(s))

\* dict.get(name, [])
DictGet(d, name) == IF name \in DOMAIN d THEN d[name] ELSE <<>>

\* d.setdefault(name, []).extend(items)
DictExtend(d, name, items) ==
    [n \in DOMAIN d \cup {name} |-> IF n = name THEN DictGet(d, n) \o items ELSE d[n]]

\* cross_game_memories or {}: the dict handed in when it is truthy, that is
\* non-empty, and a new empty dict otherwise
OrEmptyDict(heap, ref) ==
    IF DOMAIN heap[ref] # {}
    THEN [heap |-> heap, ref |-> ref]
    ELSE [heap |-> Append(heap, EmptyDict), ref |-> Len(heap) + 1]

\* KnowledgeBase.extract_learnings: one summary of the latest notes
ExtractLearnings(kb, game_number) ==
    IF kb.notes # <<>>
    THEN <<[game |-> game_number, notes |-> LastN(kb.notes, 5)]>>
    ELSE <<>>

\* KnowledgeBase(player_name) followed by inject_learnings(prior) when there
\* are prior learnings
NewKnowledgeBase(prior) == [notes |-> <<>>, learnings |-> LastN(prior, 10)]

\* the extraction loop at the end of GameRunner.run over the players from
\* index i on
RECURSIVE ExtendAll(_, _, _, _)
ExtendAll(d, kbs, game_number, i) ==
    IF i > Len(BatchNames) THEN d
    ELSE ExtendAll(DictExtend(d, BatchNames[i],
                              ExtractLearnings(kbs[BatchNames[i]], game_number)),
                   kbs, game_number, i + 1)

\* BatchRunner.__init__: heap[1] is _cross_game_memories
BatchInit ==
    /\ state = None
    /\ driver = "batch"
    /\ pc = "batch"
    /\ loc = [heap |-> <<EmptyDict>>, game |-> 0, runner |-> 1, kbs |-> None]
    /\ result = <<>>
    /\ emitted = <<>>
    /\ ret = None
    /\ brief = None
    /\ acts = <<>>

\* the next iteration of BatchRunner.run: GameRunner(...,
\* cross_game_memories=self._cross_game_memories) and the start of run up to
\* the knowledge bases
StartGame ==
    /\ pc = "batch"
    /\ loc.game < MaxGames
    /\ LET r == OrEmptyDict(loc.heap, 1)
       IN loc' = [heap |-> r.heap, game |-> loc.game + 1, runner |-> r.ref,
                  kbs |-> [n \in Range(BatchNames) |->
                              NewKnowledgeBase(DictGet(r.heap[r.ref], n))]]
    /\ pc' = "playing"
    /\ UNCHANGED <<state, driver, result, emitted, ret, brief, acts>>

\* a player saves a note during the game (KnowledgeBase.write_notes)
WriteNotes ==
    /\ pc = "playing"
    /\ \E n \in Range(BatchNames) :
          /\ Len(loc.kbs[n].notes) < MaxNotes
          /\ loc' = [loc EXCEPT !.kbs[n].notes = Append(@, "note")]
    /\ UNCHANGED <<state, driver, pc, result, emitted, ret, brief, acts>>

\* the game comes to its end: the learnings of every player are appended to
\* the memories of the runner and the result joins the results of the batch
FinishGame ==
    /\ pc = "playing"
    /\ loc' = [loc EXCEPT !.heap[loc.runner] = ExtendAll(@, loc.kbs, loc.game, 1)]
    /\ ret' = [fn |-> "GameRunner.run", game |-> loc.game,
               extracted |-> [n \in Range(BatchNames) |->
                                 ExtractLearnings(loc.kbs[n], loc.game)]]
    /\ result' = Append(result, loc.game)
    /\ pc' = "batch"
    /\ UNCHANGED <<state, driver, emitted, brief, acts>>

\* the game raises: the batch logs it and goes on with the next game
GameFailed ==
    /\ pc = "playing"
    /\ pc' = "batch"
    /\ UNCHANGED <<state, driver, loc, result, emitted, ret, brief, acts>>

BatchNext == StartGame \/ WriteNotes \/ FinishGame \/ GameFailed

BatchSpec == BatchInit /\ [][BatchNext]_vars

(* C33 *)

\* the shared memory of the batch
SharedMemories == loc.heap[1]

\* game i has just ended with learnings extracted / game i + 1 has started
\* right after it
GameEnded == pc = "batch" /\ ret # None /\ ret.game = loc.game

NextGameStarted == pc = "playing" /\ ret # None /\ ret.game = loc.game - 1

\* C33: in a batch the games run one after another, the shared cross-game
\* memory keyed by display name is only appended to, and the learnings
\* extracted from a player's knowledge base at the end of game i are in the
\* shared memory and are injected into that player's knowledge base at the
\* start of game i+1
C33_CrossGameMemory ==
    /\ GameEnded =>
          \A n \in Range(BatchNames) :
             Range(ret.extracted[n]) \subseteq Range(DictGet(SharedMemories, n))
    /\ NextGameStarted =>
          \A n \in Range(BatchNames) :
             Range(ret.extracted[n]) \subseteq Range(loc.kbs[n].learnings)

\* one game at a time, and no dict of memories ever loses or rewrites an entry
C33_AppendOnly ==
    [][/\ \A ref \in 1..Len(loc.heap) : \A n \in DOMAIN loc.heap[ref] :
             /\ n \in DOMAIN loc'.heap[ref]
             /\ IsPrefix(loc.heap[ref][n], loc'.heap[ref][n])
       /\ loc'.game \in {loc.game, loc.game + 1}
       /\ (loc'.game # loc.game) => pc = "batch"]_vars

\* a second game started after a game in which a player's learnings were
\* extracted
C33_Witness ==
    /\ NextGameStarted
    /\ \E n \in Range(BatchNames) : ret.extracted[n] # <<>>

-----------------------------------------------------------------------------
(* C34 *)

\* a step of a game of driver d that takes a turn of the night loop, of a
\* discussion round or of the vote asks the player whose turn it is, with
\* the briefing of that phase
TurnsAsked(d) ==
    (driver = d /\ pc \in {"night", "discussion", "vote"} /\ loc.queue # <<>>) =>
        /\ brief' # brief
        /\ brief'.to = Head(loc.queue)
        /\ brief'.kind = pc
        /\ brief'.outcome \in {"acted", "passed", "spoke", "voted", "raised"}

\* C34: in a game driven by Game.run the agents play: in every night each
\* living player with a night ability, in every discussion round each living
\* player and in every vote each living player is called with a briefing and
\* a toolkit, and what the agent returns is what is recorded
C34_GameRunPlays == [][TurnsAsked("game")]_vars

\* the same for the games of the session runner
C34_RunnerPlays == [][TurnsAsked("runner")]_vars

\* a game of Game.run has gone through a vote
C34_Witness ==
    /\ driver = "game"
    /\ pc = "vote_result"
    /\ Len(loc.votes) >= 2

-----------------------------------------------------------------------------
(* C35 *)

\* the targets field of the night ability of the player
TargetClass(st, pid) == NightAbilities(RegistryGet(GetPlayer(st, pid).role))[1].targets

\* target is a living player, and another one for an alive_others ability
InTargetClass(st, pid, target) ==
    /\ HasPlayer(st, target)
    /\ GetPlayer(st, target).is_alive
    /\ (TargetClass(st, pid) = "alive_others" => target # pid)

\* the names the use_ability tool of the player turns into a UseAbilityAction
AcceptedTargets(st, pid) ==
    {arg \in ToolArgs(st) :
        UseAbilityTool(st, pid, FirstNightAbility(GetPlayer(st, pid)), arg).type
            = "UseAbilityAction"}

\* the names on the valid-targets line of a night briefing
NamedTargets(text) ==
    UNION {Range(text[i].names) : i \in {j \in 1..Len(text) : text[j].line = "valid_targets"}}

\* a night turn in which the agent was asked
NightAsked == pc = "night" /\ loc.queue # <<>> /\ brief' # brief

\* C35: every UseAbilityAction recorded in night_actions respects the target
\* class of its ability: kill and investigate (alive_others) never target
\* the actor, a dead or an unknown player, protect (alive_any) targets a
\* living player, possibly the actor; and the valid targets the night
\* briefing names are exactly the targets the use_ability tool accepts
C35_TargetClass ==
    [][ NightAsked =>
          LET pid == Head(loc.queue)
          IN /\ \A i \in 1..Len(EntriesOf(state', pid)) :
                   EntriesOf(state', pid)[i].action.type = "UseAbilityAction"
                      => InTargetClass(state, pid, EntriesOf(state', pid)[i].action.target_id)
             /\ NamedTargets(brief'.text) = AcceptedTargets(state, pid) ]_vars

\* what holds: the recorded target is a player alive in the state the agent
\* was asked in, and every target the briefing names is accepted by the tool
C35_AliveTarget ==
    [][ NightAsked =>
          LET pid == Head(loc.queue)
          IN /\ \A i \in 1..Len(EntriesOf(state', pid)) :
                   EntriesOf(state', pid)[i].action.type = "UseAbilityAction"
                      => LET t == EntriesOf(state', pid)[i].action.target_id
                         IN HasPlayer(state, t) /\ GetPlayer(state, t).is_alive
             /\ NamedTargets(brief'.text) = AcceptedTargets(state, pid) \ {pid} ]_vars

\* a werewolf has recorded a kill of itself
C35_SelfTargetWitness ==
    \E i \in 1..Len(state.night_actions) :
       LET a == state.night_actions[i].action
       IN /\ a.type = "UseAbilityAction"
          /\ a.ability_name = "kill"
          /\ a.target_id = a.player_id

-----------------------------------------------------------------------------
(* C36 *)

\* the kill votes of the call that returned
KillVotesOfCall == WolfKillVotes(ret.night_actions)

\* the targets holding the top kill-vote count
TopCount(votes) == {t \in Range(votes) : CountIn(votes, t) = MaxVotes(votes)}

ThresholdMet(votes) == votes # <<>> /\ MaxVotes(votes) >= RequiredVotes(Len(votes))

\* C36: whenever the consensus threshold of the wolves is met in
\* resolve_night exactly one target holds the top kill-vote count, so the
\* random choice among the top targets never has two or more candidates
C36_UniqueTop ==
    (ResolveReturned /\ ret.raised = Null /\ ThresholdMet(KillVotesOfCall)) =>
        /\ Cardinality(TopCount(KillVotesOfCall)) = 1
        /\ Len(TopTargets(KillVotesOfCall)) = 1
        /\ Cardinality(KillsChoices(KillVotesOfCall)) = 1

\* three kill votes, two of them for the same target: the majority is met
\* without unanimity
C36_Witness ==
    /\ ResolveReturned
    /\ ret.raised = Null
    /\ Len(KillVotesOfCall) = 3
    /\ MaxVotes(KillVotesOfCall) = 2
    /\ ThresholdMet(KillVotesOfCall)

-----------------------------------------------------------------------------
(* C37 *)

NightResults(events) == SelectSeq(events, LAMBDA e : e.type = "NightResultEvent")

-----------------------------------------------------------------------------
(* C38 *)

\* the slots alive before the step and dead after it
Died == {i \in 1..Len(state.players) : state.players[i].is_alive /\ ~state'.players[i].is_alive}

\* the step is the night resolution at dawn or the application of a vote result
KillingStep == (pc = "night" /\ loc.queue = <<>>) \/ pc = "vote_result"

\* C38: death is permanent and bounded per step: a dead player is never alive
\* again; the number of living players goes down by at most one in a night
\* resolution and by at most one when a vote result is applied, and in no
\* other step; every death comes with exactly one EliminationEvent, for the
\* player who died
C38_DeathPermanent ==
    [][ pc # "setup" =>
          /\ Len(state'.players) = Len(state.players)
          /\ \A i \in 1..Len(state.players) :
                /\ state'.players[i].player_id = state.players[i].player_id
                /\ ~state.players[i].is_alive => ~state'.players[i].is_alive
          /\ Cardinality(Died) <= 1
          /\ Died # {} => KillingStep
          /\ Len(AllEliminations(NewEvents)) = Cardinality(Died)
          /\ \A i \in Died :
                AllEliminations(NewEvents)[1].player_id = state.players[i].player_id ]_vars

\* a player died at dawn and another one by the vote of the same day
C38_Witness ==
    /\ pc = "vote_check"
    /\ Len(AllEliminations(state.events)) = 2
    /\ AllEliminations(state.events)[1].cause = "wolf_kill"
    /\ AllEliminations(state.events)[2].cause = "vote"
    /\ AllEliminations(state.events)[1].day = AllEliminations(state.events)[2].day

-----------------------------------------------------------------------------
(* C39 *)

\* everything the player asked last was shown: the briefing and the output
\* of every informational tool
ShownLines(b) ==
    b.text \o b.tools.get_alive_players \o b.tools.get_all_players
           \o b.tools.get_day_events \o b.tools.get_vote_history

VotedLines(b) == {l \in Range(ShownLines(b)) : l.line = "voted"}

\* a turn of the vote in which the agent was asked
VoteAsked == pc = "vote" /\ loc.queue # <<>> /\ brief' # brief

\* C39: the votes of one voting phase are simultaneous: while a player is
\* asked in DAY_VOTE neither its briefing nor the output of an informational
\* tool (vote history, day events) holds a vote another player cast in this
\* phase, whatever the order in which the players are asked
C39_SimultaneousVotes ==
    [][ VoteAsked =>
          /\ brief'.to = Head(loc.queue)
          /\ \A l \in VotedLines(brief') : l.day < state.day
          /\ \A i \in 1..Len(loc.votes) :
                ~ \E l \in VotedLines(brief') :
                     l.day = state.day /\ l.voter = loc.votes[i].voter_id
          /\ Len(state.events) = loc.pre_count
          /\ state' = state ]_vars

\* the last player of a vote is asked after two others have named a target;
\* a vote of the first day is in the history shown on the second day
C39_Witness ==
    /\ pc = "vote"
    /\ brief # None
    /\ brief.kind = "vote"
    /\ Len(loc.votes) = 3
    /\ loc.votes[1].target_id # Null
    /\ loc.votes[2].target_id # Null
    /\ brief.to = loc.votes[3].voter_id

C39_HistoryWitness ==
    /\ pc = "vote"
    /\ brief # None
    /\ brief.kind = "vote"
    /\ state.day = 2
    /\ \E l \in VotedLines(brief) : l.day = 1 /\ l.target # Null

-----------------------------------------------------------------------------
(* C40 *)

\* the state before a step with the day counter the step sets
AtDayOfStep == [state EXCEPT !.day = state'.day]

\* C40: the two drivers are equivalent: on the same players, configuration
\* and agent actions Game.run and _run_game_loop go through the same phases,
\* produce the same event log and return a GameEndEvent with the same
\* winning team and winners, at the max-day cutoff too. Step by step: where
\* either driver changes the phase, ends the game or cuts it off, the other
\* driver leaves the same state and log and returns the same result
C40_DriversEquivalent ==
    [][ /\ (state'.phase # state.phase /\ ~Done') =>
              GameTransition(AtDayOfStep, state'.phase)[1]
                 = RunnerTransition(AtDayOfStep, state'.phase)[1]
        /\ (Done' /\ ~Done) =>
              /\ GameEndGame(state, result')[1] = RunnerEndGame(state, result')[1]
              /\ result'.reason = "max_days" =>
                    /\ GameCutoffEvent(state, loc.day).winning_team
                          = RunnerCutoffEvent(loc.cfg.max_days).winning_team
                    /\ GameCutoffEvent(state, loc.day).winners
                          = RunnerCutoffEvent(loc.cfg.max_days).winners ]_vars

\* what the drivers share: they enter the same phases in the same order, and
\* a game that ends by a victory returns check_victory of the same state
C40_SamePhases ==
    [][ /\ (state'.phase # state.phase /\ ~Done') =>
              GameTransition(AtDayOfStep, state'.phase)[1].phase
                 = RunnerTransition(AtDayOfStep, state'.phase)[1].phase
        /\ (Done' /\ ~Done /\ result'.reason # "max_days") =>
              result' = CheckVictory(state) ]_vars

\* the cutoff of Game.run and the cutoff of the runner, each on the last day
C40_GameCutoffWitness ==
    /\ Done
    /\ driver = "game"
    /\ result.reason = "max_days"
    /\ result.winning_team = "werewolf"

C40_RunnerCutoffWitness ==
    /\ Done
    /\ driver = "runner"
    /\ result.reason = "max_days"
    /\ result.winning_team = "draw"

=============================================================================
